---- MODULE Spec2Model ----
(***************************************************************************)
(* Model of the HTTP transport layer of fizzy-client-python                *)
(* (src/src/fizzy/utils/http.py, src/src/fizzy/exceptions.py).             *)
(*                                                                         *)
(* Strings that the code slices or parses are sequences of tokens:         *)
(*   - URLs and paths are sequences of path tokens, so that startswith,    *)
(*     endswith and slicing are sequence operations;                       *)
(*   - the Retry-After header is a sequence of characters, so that int()   *)
(*     is computed digit by digit.                                         *)
(* An absent header and an empty header value are both the empty sequence  *)
(* (or the empty string): the code only tests headers for truthiness.      *)
(***************************************************************************)
EXTENDS Integers, Sequences, FiniteSets, TLC

VARIABLES variant, cacheEnabled, cache, pc, call, sent, resp, fresp, result,
          version, seen, received, plainSent, plainResult,
          current_page, index, depth, ppc, pullOut, pulls, pages, yielded,
          new_page, before_pull,
          token, session_token, authorization, account_slug, handles, arg, ret,
          tasks, reactions, passes

\* The state of the server and of a second client without a cache, which
\* only the specification of the response cache moves.
serverVars == <<version, seen, received, plainSent, plainResult>>

\* The state of one Auto-Pagination Sequence (PaginationIterator) and the
\* record of what it was served and what it yielded.
iterVars == <<current_page, index, depth, ppc, pullOut, pulls, pages, yielded,
              new_page, before_pull>>

\* What the client was constructed with and the Authorization header of its
\* transport; the file handles the executor has opened, open or closed; and
\* the argument and the result of a helper function applied on its own.
clientVars == <<token, session_token, authorization, account_slug>>

\* The GETs that run concurrently on one async client, and the reactions
\* of one comment on the server.
taskVars == <<tasks, reactions>>

\* passes: the items of each finished pass over one list endpoint, in the
\* order the passes were made on the same client.

restVars == <<token, session_token, authorization, account_slug, handles, arg, ret,
              tasks, reactions, passes>>

vars == <<variant, cacheEnabled, cache, pc, call, sent, resp, fresp, result,
          version, seen, received, plainSent, plainResult,
          current_page, index, depth, ppc, pullOut, pulls, pages, yielded,
          new_page, before_pull,
          token, session_token, authorization, account_slug, handles, arg, ret,
          tasks, reactions, passes>>

(***************************************************************************)
(* JSON values and Python values                                           *)
(***************************************************************************)

\* A parsed JSON value (the result of response.json()).  t is the Python type
\* of the value; an object carries its "error", "message" and "errors" keys
\* (Absent when the key is missing); id tells data payloads apart.
Absent == "<absent>"

JValue(t, id, error, message, hasErrors, errors) ==
    [t |-> t, id |-> id, error |-> error, message |-> message,
     hasErrors |-> hasErrors, errors |-> errors, items |-> <<>>]

JObject(id, error, message, hasErrors, errors) ==
    JValue("dict", id, error, message, hasErrors, errors)

EmptyDict == JObject("{}", Absent, Absent, FALSE, {})

JOther(t, id) == JValue(t, id, Absent, Absent, FALSE, {})

\* A JSON array with its elements.
JList(items) == [JOther("list", ToString(items)) EXCEPT !.items = items]

\* Python None as a returned value, and the marker for "no value returned".
PyNone == JOther("NoneType", "None")

NoValue == JOther("<no value>", "")

\* A field-error map is a set of <<field, messages>> pairs.
FieldErrors == {<<"email", <<"is invalid">>>>}

(***************************************************************************)
(* Response bodies: raw text plus what response.json() makes of it         *)
(***************************************************************************)

NotJson == JOther("<not json>", "")

Body(raw, json) == [raw |-> raw, json |-> json]

BEmpty == Body("", NotJson)

BSpace == Body("  ", NotJson)

BText == Body("<html>oops</html>", NotJson)

BEmptyObject == Body("{}", EmptyDict)

BError == Body("{error:E}", JObject("err", "E", Absent, FALSE, {}))

BMessage == Body("{message:M}", JObject("msg", Absent, "M", FALSE, {}))

BErrorMessage == Body("{error:E,message:M}", JObject("errmsg", "E", "M", FALSE, {}))

BErrors == Body("{errors:{email:[is invalid]}}", JObject("errs", Absent, Absent, TRUE, FieldErrors))

BErrorsEmpty == Body("{message:M,errors:{}}", JObject("errs0", Absent, "M", TRUE, {}))

BArray == Body("[1]", JList(<<"1">>))

BString == Body("\"oops\"", JOther("str", "oops"))

BNumber == Body("7", JOther("int", "7"))

BData1 == Body("{id:abc123}", JObject("abc123", Absent, Absent, FALSE, {}))

BData2 == Body("[{id:c1},{id:c2}]", JList(<<"c1", "c2">>))

\* Bodies a server sends with an error status, and with a non-error status.
ErrorBodies ==
    {BEmpty, BSpace, BText, BEmptyObject, BError, BMessage, BErrorMessage,
     BErrors, BErrorsEmpty, BArray, BString, BNumber}

DataBodies == {BEmpty, BSpace, BText, BData1, BData2}

\* response.content is empty, or blank after strip()  (http.py:114, 127)
EmptyContent(body) == body.raw = "" \/ body.raw = "  "

(***************************************************************************)
(* Header values                                                           *)
(***************************************************************************)

\* HTTPClient.DEFAULT_BASE_URL after rstrip("/")
base_url == <<"https://", "app.fizzy.do">>

\* Location header values: absent, absolute under the base URL with and
\* without the .json suffix, relative with the suffix, and another host.
Locations ==
    {<<>>,
     base_url \o <<"/", "123456", "/boards", "/abc123", ".json">>,
     base_url \o <<"/", "123456", "/boards", "/abc123">>,
     <<"/", "123456", "/boards", "/abc123", ".json">>,
     <<"https://", "other.example", "/x", ".json">>}

ETags == {"", "e1", "e2"}

\* Retry-After header values, character by character: absent, "30", "0",
\* an HTTP date (abridged) and a negative number.
RetryAfters == {<<>>, <<"3", "0">>, <<"0">>, <<"W", "e", "d">>, <<"-", "5">>}

Digits == <<"0", "1", "2", "3", "4", "5", "6", "7", "8", "9">>

IsDigit(c) == \E i \in 1..10 : Digits[i] = c

DigitValue(c) == (CHOOSE i \in 1..10 : Digits[i] = c) - 1

RECURSIVE DigitsValue(_)
DigitsValue(s) ==
    IF s = <<>> THEN 0
    ELSE 10 * DigitsValue(SubSeq(s, 1, Len(s) - 1)) + DigitValue(s[Len(s)])

AllDigits(s) == s # <<>> /\ \A i \in 1..Len(s) : IsDigit(s[i])

\* Python int(str): an optional sign followed by decimal digits; anything
\* else raises ValueError (ok = FALSE).
ParseInt(s) ==
    IF AllDigits(s) THEN [ok |-> TRUE, val |-> DigitsValue(s)]
    ELSE IF s # <<>> /\ s[1] \in {"-", "+"} /\ AllDigits(Tail(s))
         THEN [ok |-> TRUE,
               val |-> IF s[1] = "-" THEN 0 - DigitsValue(Tail(s)) ELSE DigitsValue(Tail(s))]
         ELSE [ok |-> FALSE, val |-> 0]

(***************************************************************************)
(* Responses                                                               *)
(***************************************************************************)

Response(status, body, location, etag, retry_after) ==
    [status |-> status, body |-> body, location |-> location,
     etag |-> etag, retry_after |-> retry_after, link |-> <<>>]

NoResp == Response(0, BEmpty, <<>>, "", <<>>)

ErrorStatuses == {400, 401, 403, 404, 418, 422, 429, 500, 503}

OkStatuses == {200, 201, 204, 301, 304}

Statuses == OkStatuses \cup ErrorStatuses

\* The headers a server attaches: Location on 201 and on redirects,
\* Retry-After on 429, ETag on the non-error responses to a GET.
LocationsOf(status) == IF status \in {201, 301} THEN Locations ELSE {<<>>}

RetryAftersOf(status) == IF status = 429 THEN RetryAfters ELSE {<<>>}

ETagsOf(status, method) ==
    IF method = "GET" /\ status \in OkStatuses THEN ETags ELSE {""}

BodiesOf(status) == IF status >= 400 THEN ErrorBodies ELSE DataBodies

Responses(method) ==
    UNION {
        { Response(s, b, l, e, r) :
            b \in BodiesOf(s), l \in LocationsOf(s),
            e \in ETagsOf(s, method), r \in RetryAftersOf(s) }
        : s \in Statuses }

\* Responses to the follow-up GET of _handle_response: only the status, the
\* body and Retry-After are read from it.
FollowResponses ==
    UNION {
        { Response(s, b, <<>>, "", r) : b \in BodiesOf(s), r \in RetryAftersOf(s) }
        : s \in Statuses }

(***************************************************************************)
(* Outcomes of a call: a returned value or a raised exception              *)
(***************************************************************************)

Outcome(k, exc, status_code, message, errors, has_ra, ra, response_body, value) ==
    [k |-> k, exc |-> exc, status_code |-> status_code, message |-> message,
     errors |-> errors, has_retry_after |-> has_ra, retry_after |-> ra,
     response_body |-> response_body, value |-> value]

Return(value) == Outcome("return", "-", 0, "-", {}, FALSE, 0, EmptyDict, value)

\* An exception that is not one of the library's typed errors.
Untyped(exc) == Outcome("raise", exc, 0, "-", {}, FALSE, 0, EmptyDict, NoValue)

NoOutcome == Outcome("-", "-", 0, "-", {}, FALSE, 0, EmptyDict, NoValue)

\* exceptions.py: FizzyError.__init__  (response_body or {})
FizzyErrorInit(exc, message, status_code, response_body) ==
    Outcome("raise", exc, status_code, message, {}, FALSE, 0, response_body, NoValue)

FizzyError(message, status_code, response_body) ==
    FizzyErrorInit("FizzyError", message, status_code, response_body)

BadRequestError(message, response_body) ==
    FizzyErrorInit("BadRequestError", message, 400, response_body)

AuthenticationError(message, response_body) ==
    FizzyErrorInit("AuthenticationError", message, 401, response_body)

ForbiddenError(message, response_body) ==
    FizzyErrorInit("ForbiddenError", message, 403, response_body)

NotFoundError(message, response_body) ==
    FizzyErrorInit("NotFoundError", message, 404, response_body)

ServerError(message, status_code, response_body) ==
    FizzyErrorInit("ServerError", message, status_code, response_body)

\* Mutant of ValidationError: the field errors of the body are dropped.
ValidationErrorDropsErrors(message, errors, response_body) ==
    FizzyErrorInit("ValidationError", message, 422, response_body)

\* exceptions.py: ValidationError.__init__  (self.errors = errors or {})
ValidationError(message, errors, response_body) ==
    [FizzyErrorInit("ValidationError", message, 422, response_body)
        EXCEPT !.errors = IF errors = {} THEN {} ELSE errors]

\* exceptions.py: RateLimitError.__init__
RateLimitError(message, has_ra, ra, response_body) ==
    [FizzyErrorInit("RateLimitError", message, 429, response_body)
        EXCEPT !.has_retry_after = has_ra, !.retry_after = ra]

(***************************************************************************)
(* The error classifier: HTTPClient._raise_for_status                      *)
(***************************************************************************)

\* try: body = response.json()  except Exception: body = {}   (http.py:134-137)
ErrorBodyOf(response) ==
    IF response.body.json = NotJson THEN EmptyDict ELSE response.body.json

\* body.get("error", body.get("message", response.text or "Unknown error"))
MessageOf(response, body) ==
    IF body.error # Absent THEN body.error
    ELSE IF body.message # Absent THEN body.message
    ELSE IF response.body.raw # "" THEN response.body.raw
    ELSE "Unknown error"

\* case 429: retry_after=int(retry_after) if retry_after else None
\* int() of a header that is not an integer raises ValueError.
RetryAfterOf(response, message, body) ==
    IF response.retry_after = <<>> THEN RateLimitError(message, FALSE, 0, body)
    ELSE IF ~ParseInt(response.retry_after).ok THEN Untyped("ValueError")
    ELSE RateLimitError(message, TRUE, ParseInt(response.retry_after).val, body)

\* body.get("errors", {})
ErrorsOf(body) == IF body.hasErrors THEN body.errors ELSE {}

\* HTTPClient._raise_for_status and AsyncHTTPClient._raise_for_status (the
\* same code): always raises.  body.get on a JSON value that is not an
\* object raises AttributeError before the status is looked at.
raise_for_status(response) ==
    LET body == ErrorBodyOf(response) IN
    IF body.t # "dict" THEN Untyped("AttributeError")
    ELSE
    LET message == MessageOf(response, body)
        code == response.status
    IN  CASE code = 400 -> BadRequestError(message, body)
          [] code = 401 -> AuthenticationError(message, body)
          [] code = 403 -> ForbiddenError(message, body)
          [] code = 404 -> NotFoundError(message, body)
          [] code = 422 -> ValidationError(message, ErrorsOf(body), body)
          [] code = 429 -> RetryAfterOf(response, message, body)
          [] code >= 500 -> ServerError(message, code, body)
          [] OTHER -> FizzyError(message, code, body)

(***************************************************************************)
(* Response interpretation: _handle_response                               *)
(***************************************************************************)

\* response.json(): the parsed body, or a JSON decode error
ResponseJson(response) ==
    IF response.body.json = NotJson THEN Untyped("JSONDecodeError")
    ELSE Return(response.body.json)

StartsWith(s, prefix) ==
    Len(s) >= Len(prefix) /\ SubSeq(s, 1, Len(prefix)) = prefix

EndsWith(s, suffix) ==
    Len(s) >= Len(suffix) /\ SubSeq(s, Len(s) - Len(suffix) + 1, Len(s)) = suffix

\* http.py:116-120: strip the base URL prefix, then the ".json" suffix
StripBase(location) ==
    IF StartsWith(location, base_url)
    THEN SubSeq(location, Len(base_url) + 1, Len(location))
    ELSE location

StripJson(location) ==
    IF EndsWith(location, <<".json">>)
    THEN SubSeq(location, 1, Len(location) - 1)
    ELSE location

FollowLocation(response) == StripJson(StripBase(response.location))

\* http.py:112-114: 201 with a Location header and an empty body
NeedsFollowUp(response) ==
    /\ response.status = 201
    /\ response.location # <<>>
    /\ EmptyContent(response.body)

\* http.py:121-124: the outcome of the follow-up GET
FollowOutcome(follow_response) ==
    IF follow_response.status >= 400 THEN raise_for_status(follow_response)
    ELSE ResponseJson(follow_response)

\* Mutant of handle_response: the error check misses the boundary status 400.
handle_response_off_by_one(response, follow_response) ==
    IF response.status = 304 THEN Return(PyNone)
    ELSE IF response.status > 400 THEN raise_for_status(response)
    ELSE IF response.status = 204 THEN Return(PyNone)
    ELSE IF NeedsFollowUp(response) THEN FollowOutcome(follow_response)
    ELSE IF EmptyContent(response.body) THEN Return(PyNone)
    ELSE ResponseJson(response)

\* HTTPClient._handle_response.  follow_response is the response to the
\* follow-up GET; it is read only when NeedsFollowUp(response).
handle_response(response, follow_response) ==
    IF response.status = 304 THEN Return(PyNone)
    ELSE IF response.status >= 400 THEN raise_for_status(response)
    ELSE IF response.status = 204 THEN Return(PyNone)
    ELSE IF NeedsFollowUp(response) THEN FollowOutcome(follow_response)
    ELSE IF EmptyContent(response.body) THEN Return(PyNone)
    ELSE ResponseJson(response)

\* AsyncHTTPClient._handle_response: no follow-up and no empty-body rule.
async_handle_response(response) ==
    IF response.status = 304 THEN Return(PyNone)
    ELSE IF response.status >= 400 THEN raise_for_status(response)
    ELSE IF response.status = 204 THEN Return(PyNone)
    ELSE ResponseJson(response)

\* Mutant of SendsFollowUp: a server error is answered by a second request.
SendsFollowUp_retries(v, response) ==
    \/ v = "sync" /\ response.status # 304 /\ response.status < 400
                  /\ response.status # 204 /\ NeedsFollowUp(response)
    \/ response.status >= 500

\* Whether the executor sends a follow-up GET after this response.
SendsFollowUp(v, response) ==
    v = "sync" /\ response.status # 304 /\ response.status < 400
               /\ response.status # 204 /\ NeedsFollowUp(response)

(***************************************************************************)
(* URL building and the ETag cache                                         *)
(***************************************************************************)

\* Construction arguments: None, the empty string, or a value.
NotGiven == "<None>"

Truthy(x) == x # NotGiven /\ x # ""

\* Mutant of build_url: the prefix is added whatever include_account says.
build_url_always(path, include_account) ==
    IF Truthy(account_slug) THEN <<"/", account_slug>> \o path
    ELSE path

\* HTTPClient._build_url: f"/{self.account_slug}{path}"
build_url(path, include_account) ==
    IF include_account /\ Truthy(account_slug) THEN <<"/", account_slug>> \o path
    ELSE path

\* ETagCache.get: (None, None) for a URL that is not cached.  A missing ETag
\* is the empty string: the caller only tests it for truthiness.
ETagCache_get(c, url) ==
    IF url \in DOMAIN c THEN c[url] ELSE [etag |-> "", data |-> PyNone]

\* ETagCache.set
ETagCache_set(c, url, etag, data) ==
    [u \in DOMAIN c \cup {url} |->
        IF u = url THEN [etag |-> etag, data |-> data] ELSE c[u]]

\* ETagCache.__init__
EmptyCache == [u \in {} |-> [etag |-> "", data |-> PyNone]]

(***************************************************************************)
(* The executor: one call at a time on one client                          *)
(***************************************************************************)

\* http.py:58-59: if not token and not session_token: raise ValueError
ConstructionFails(tok, sess) == ~Truthy(tok) /\ ~Truthy(sess)

\* f"Bearer {token}"
Bearer(t) == <<"Bearer ", t>>

\* Mutant of AuthorizationOf: the session token is preferred.
AuthorizationOf_session_first(tok, sess) ==
    IF Truthy(sess) THEN Bearer(sess)
    ELSE IF Truthy(tok) THEN Bearer(tok)
    ELSE <<>>

\* http.py:72-75: the Authorization header given to the transport
AuthorizationOf(tok, sess) ==
    IF Truthy(tok) THEN Bearer(tok)
    ELSE IF Truthy(sess) THEN Bearer(sess)
    ELSE <<>>

\* The header self._client attaches to each of its requests, and the one
\* the multipart calls copy into their own transport (http.py:288, 323).
ClientAuthorization == authorization

MultipartAuthorization == IF authorization # <<>> THEN authorization ELSE <<>>

Request(method, url, params, if_none_match) ==
    [method |-> method, url |-> url, params |-> params,
     if_none_match |-> if_none_match, authorization |-> ClientAuthorization]

Call(op, method, path, params, include_account) ==
    [op |-> op, method |-> method, path |-> path, params |-> params,
     include_account |-> include_account,
     url |-> build_url(path, include_account)]

NoCall == Call("-", "-", <<>>, {}, FALSE)

\* A params mapping is a set of <<key, value>> pairs; a key is a sequence
\* of tokens and a value is [t: its Python type, v: its items as strings].
NoParams == {}

PNone == [t |-> "NoneType", v |-> <<>>]

PBool(b) == [t |-> "bool", v |-> <<b>>]

PStr(x) == [t |-> "str", v |-> <<x>>]

PList(xs) == [t |-> "list", v |-> xs]

PInt(n) == [t |-> "int", v |-> <<n>>]

\* str(value).lower() of a bool
LowerBool(b) == IF b = "True" THEN "true" ELSE "false"

\* Mutant of build_params: a list stays under its own key.
build_params_plain_key(params) ==
    { IF kv[2].t = "bool" THEN <<kv[1], PStr(LowerBool(kv[2].v[1]))>>
      ELSE kv
      : kv \in { x \in params : x[2].t # "NoneType" } }

\* HTTPClient._build_params
build_params(params) ==
    { IF kv[2].t = "list" THEN <<kv[1] \o <<"[]">>, kv[2]>>
      ELSE IF kv[2].t = "bool" THEN <<kv[1], PStr(LowerBool(kv[2].v[1]))>>
      ELSE kv
      : kv \in { x \in params : x[2].t # "NoneType" } }

Paths == {<<"/boards">>}

\* The include_account argument of the calls: its default value.
IncludeAccount == {TRUE}

\* _handle_response of the client's class
HandleBy(v, response, follow_response) ==
    IF v = "sync" THEN handle_response(response, follow_response)
    ELSE async_handle_response(response)

\* http.py:190-197: the If-None-Match header of a GET
IfNoneMatch(c, enabled, url) ==
    IF enabled THEN ETagCache_get(c, url).etag ELSE ""

\* http.py:202-204: a 304 is answered from the cache when there is a cache
NotModifiedFromCache(enabled, response) == response.status = 304 /\ enabled

\* Mutant of StoreAfterGet: an entry, once stored, is never overwritten.
StoreAfterGet_keeps_first(c, enabled, url, response, out) ==
    IF enabled /\ out.k = "return" /\ response.etag # "" /\ url \notin DOMAIN c
    THEN ETagCache_set(c, url, response.etag, out.value)
    ELSE c

\* http.py:209-212: store the parsed body under the URL when an ETag came
StoreAfterGet(c, enabled, url, response, out) ==
    IF enabled /\ out.k = "return" /\ response.etag # ""
    THEN ETagCache_set(c, url, response.etag, out.value)
    ELSE c

\* HTTPClient.get after the response: what it returns or raises ...
GetOutcome(c, enabled, v, url, response, follow_response) ==
    IF NotModifiedFromCache(enabled, response)
    THEN Return(ETagCache_get(c, url).data)
    ELSE HandleBy(v, response, follow_response)

\* ... and the cache it leaves.
GetCache(c, enabled, v, url, response, follow_response) ==
    IF NotModifiedFromCache(enabled, response) THEN c
    ELSE StoreAfterGet(c, enabled, url, response,
                       HandleBy(v, response, follow_response))

\* What the operation hands to its caller once _handle_response returned:
\* delete() discards the value (http.py:249-257).
Deliver(op, out) ==
    IF op = "delete" /\ out.k = "return" THEN Return(PyNone) ELSE out

\* The blocking request of an operation: it is sent and the call waits.
Issue(op, method, path, params, include_account, if_none_match) ==
    /\ call' = Call(op, method, path, params, include_account)
    /\ sent' = <<IF op \in {"post_multipart", "put_multipart"}
                 THEN [Request(method, build_url(path, include_account),
                               build_params(params), if_none_match)
                          EXCEPT !.authorization = MultipartAuthorization]
                 ELSE Request(method, build_url(path, include_account),
                              build_params(params), if_none_match)>>
    /\ pc' = "awaiting"
    /\ UNCHANGED <<variant, cacheEnabled, cache, resp, fresp, result>>
    /\ UNCHANGED serverVars

\* HTTPClient.get / AsyncHTTPClient.get, up to the request
Get(path, params, include_account) ==
    /\ pc = "idle"
    /\ Issue("get", "GET", path, params, include_account,
             IfNoneMatch(cache, cacheEnabled, build_url(path, include_account)))
    /\ UNCHANGED iterVars
    /\ UNCHANGED restVars

\* HTTPClient.post and its async twin, up to the request
Post(path, include_account) ==
    /\ pc = "idle"
    /\ Issue("post", "POST", path, NoParams, include_account, "")
    /\ UNCHANGED iterVars
    /\ UNCHANGED restVars

Put(path, include_account) ==
    /\ pc = "idle"
    /\ Issue("put", "PUT", path, NoParams, include_account, "")
    /\ UNCHANGED iterVars
    /\ UNCHANGED restVars

Patch(path, include_account) ==
    /\ pc = "idle"
    /\ Issue("patch", "PATCH", path, NoParams, include_account, "")
    /\ UNCHANGED iterVars
    /\ UNCHANGED restVars

Delete(path, include_account) ==
    /\ pc = "idle"
    /\ Issue("delete", "DELETE", path, NoParams, include_account, "")
    /\ UNCHANGED iterVars
    /\ UNCHANGED restVars

\* post_multipart / put_multipart without files, up to the request
PostMultipart(path, include_account) ==
    /\ pc = "idle"
    /\ Issue("post_multipart", "POST", path, NoParams, include_account, "")
    /\ UNCHANGED iterVars
    /\ UNCHANGED restVars

PutMultipart(path, include_account) ==
    /\ pc = "idle"
    /\ Issue("put_multipart", "PUT", path, NoParams, include_account, "")
    /\ UNCHANGED iterVars
    /\ UNCHANGED restVars

\* The response arrives and the operation runs on: a GET answered 304 is
\* served from the cache; a sync 201 with Location and an empty body sends
\* the follow-up GET and waits again; otherwise the call finishes.
ReceiveResponse(r) ==
    /\ resp' = r
    /\ IF call.op = "get" /\ NotModifiedFromCache(cacheEnabled, r)
       THEN /\ result' = GetOutcome(cache, cacheEnabled, variant, call.url, r, NoResp)
            /\ pc' = "done"
            /\ UNCHANGED <<cache, sent>>
       ELSE IF SendsFollowUp(variant, r)
       THEN /\ sent' = Append(sent, Request("GET", FollowLocation(r), NoParams, ""))
            /\ pc' = "awaiting_follow"
            /\ UNCHANGED <<cache, result>>
       ELSE /\ result' = IF call.op = "get"
                         THEN GetOutcome(cache, cacheEnabled, variant, call.url, r, NoResp)
                         ELSE Deliver(call.op, HandleBy(variant, r, NoResp))
            /\ cache' = IF call.op = "get"
                        THEN GetCache(cache, cacheEnabled, variant, call.url, r, NoResp)
                        ELSE cache
            /\ pc' = "done"
            /\ UNCHANGED sent
    /\ UNCHANGED <<variant, cacheEnabled, call, fresp>>

\* The response to the follow-up GET arrives (http.py:121-124).
ReceiveFollowResponse(fr) ==
    /\ fresp' = fr
    /\ result' = IF call.op = "get"
                 THEN GetOutcome(cache, cacheEnabled, variant, call.url, resp, fr)
                 ELSE Deliver(call.op, HandleBy(variant, resp, fr))
    /\ cache' = IF call.op = "get"
                THEN GetCache(cache, cacheEnabled, variant, call.url, resp, fr)
                ELSE cache
    /\ pc' = "done"
    /\ UNCHANGED <<variant, cacheEnabled, call, sent, resp>>
    /\ UNCHANGED serverVars

\* The transport hands the response of the pending request to the call.
Receive ==
    /\ pc = "awaiting"
    /\ \E r \in Responses(call.method) : ReceiveResponse(r)
    /\ UNCHANGED serverVars
    /\ UNCHANGED iterVars
    /\ UNCHANGED restVars

ReceiveFollow ==
    /\ pc = "awaiting_follow"
    /\ \E fr \in FollowResponses : ReceiveFollowResponse(fr)
    /\ UNCHANGED iterVars
    /\ UNCHANGED restVars

\* The caller takes the outcome; the client is ready for the next call.
TakeOutcome ==
    /\ pc' = "idle"
    /\ call' = NoCall
    /\ sent' = <<>>
    /\ resp' = NoResp
    /\ fresp' = NoResp
    /\ result' = NoOutcome
    /\ UNCHANGED <<variant, cacheEnabled, cache>>

Finish ==
    /\ pc = "done"
    /\ TakeOutcome
    /\ UNCHANGED serverVars
    /\ UNCHANGED iterVars
    /\ UNCHANGED restVars

(***************************************************************************)
(* The server of the response-cache specification                          *)
(***************************************************************************)

\* The highest version a resource reaches.
MaxVersion == 2

\* The query parameters of the GETs on one path: none, or a status filter.
StatusClosed == {<<<<"status">>, PStr("closed")>>}

CacheParams == {NoParams, StatusClosed}

\* A resource of the server is what one resolved request names: the URL
\* path together with the query parameters.
Resources == { <<build_url(p, TRUE), build_params(q)>> : p \in Paths, q \in CacheParams }

ResourceOf(c) == <<c.url, build_params(c.params)>>

InitialVersions == [r \in Resources |-> 1]

\* The validator of a resource is its version number (validators are
\* scoped to a resource: two resources may carry the same one).
Validator(v) == ToString(v)

\* The representation of a resource at a version.
Representation(r, v) == Body(ToString(<<r, v>>), JOther("list", ToString(<<r, v>>)))

\* The answer of the server to a GET on resource r with If-None-Match inm:
\* 304 with no body only when inm is the current validator of r; in mood
\* "noetag" the representation is sent without a validator, in mood "fail"
\* the server fails.
ServerMoods == {"ok", "noetag", "fail"}

Answer(r, v, inm, mood) ==
    CASE mood = "fail" -> Response(500, BError, <<>>, "", <<>>)
      [] mood = "noetag" -> Response(200, Representation(r, v), <<>>, "", <<>>)
      [] OTHER ->
            IF inm = Validator(v)
            THEN Response(304, BEmpty, <<>>, Validator(v), <<>>)
            ELSE Response(200, Representation(r, v), <<>>, Validator(v), <<>>)

\* What the last finished GET on each resource returned: its ETag and its
\* parsed body, or no ETag when it raised or came without one.
NothingSeen == [r \in Resources |-> [etag |-> "", data |-> PyNone]]

\* Every (ETag, parsed body) that a 200 response to a GET on each resource
\* has delivered so far.
NothingReceived == [r \in Resources |-> {}]

(***************************************************************************)
(* The Link header                                                         *)
(*                                                                         *)
(* A header value is a sequence of tokens: the punctuation of the format   *)
(* ("<", ">", ";", ",", " ", "rel=" and the double quote) and the texts    *)
(* between them.                                                           *)
(***************************************************************************)

Whitespace == {" "}

\* header.split(sep): the parts between the separators
RECURSIVE Split(_, _)
Split(s, sep) ==
    IF \A i \in 1..Len(s) : s[i] # sep THEN <<s>>
    ELSE LET i == CHOOSE i \in 1..Len(s) :
                      s[i] = sep /\ \A j \in 1..(i - 1) : s[j] # sep
         IN <<SubSeq(s, 1, i - 1)>> \o Split(SubSeq(s, i + 1, Len(s)), sep)

\* part.strip()
RECURSIVE Strip(_)
Strip(s) ==
    IF s # <<>> /\ Head(s) \in Whitespace THEN Strip(Tail(s))
    ELSE IF s # <<>> /\ s[Len(s)] \in Whitespace THEN Strip(SubSeq(s, 1, Len(s) - 1))
    ELSE s

\* The first position at or after from that holds tok, 0 when there is none.
FirstIndex(s, tok, from) ==
    IF \E i \in from..Len(s) : s[i] = tok
    THEN CHOOSE i \in from..Len(s) : s[i] = tok /\ \A j \in from..(i - 1) : s[j] # tok
    ELSE 0

\* The first position at or after from that holds no whitespace (\s*).
SkipSpaces(s, from) ==
    CHOOSE i \in from..(Len(s) + 1) :
        /\ i = Len(s) + 1 \/ s[i] \notin Whitespace
        /\ \A j \in from..(i - 1) : s[j] \in Whitespace

NoMatch == [matched |-> FALSE, url |-> <<>>, rel |-> <<>>]

\* re.match(r'<([^>]+)>;\s*rel="([^"]+)"', part): anchored at the start of
\* the part, the URL runs to the first ">" and the name to the next quote.
LinkMatch(part) ==
    LET gt == FirstIndex(part, ">", 2)
        r == SkipSpaces(part, gt + 2)
        q == FirstIndex(part, "\"", r + 2)
    IN IF /\ Len(part) >= 1 /\ part[1] = "<"
          /\ gt >= 3
          /\ Len(part) >= gt + 1 /\ part[gt + 1] = ";"
          /\ Len(part) >= r + 1 /\ part[r] = "rel=" /\ part[r + 1] = "\""
          /\ q >= r + 3
       THEN [matched |-> TRUE, url |-> SubSeq(part, 2, gt - 1),
             rel |-> SubSeq(part, r + 2, q - 1)]
       ELSE NoMatch

\* links: dict[str, str] = {}
EmptyLinks == [rel \in {} |-> <<>>]

\* links[rel] = url
LinksSet(links, rel, url) ==
    [x \in DOMAIN links \cup {rel} |-> IF x = rel THEN url ELSE links[x]]

\* The loop of parse_link_header over the parts.
RECURSIVE ParseParts(_, _)
ParseParts(parts, links) ==
    IF parts = <<>> THEN links
    ELSE LET m == LinkMatch(Strip(Head(parts)))
         IN ParseParts(Tail(parts),
                       IF m.matched THEN LinksSet(links, m.rel, m.url) ELSE links)

\* parse_link_header
parse_link_header(header) ==
    IF header = <<>> THEN EmptyLinks
    ELSE ParseParts(Split(header, ","), EmptyLinks)

(***************************************************************************)
(* Pagination (src/src/fizzy/utils/pagination.py)                          *)
(***************************************************************************)

\* The deepest nesting of __next__ inside itself that the interpreter
\* allows (sys.getrecursionlimit(), 1000 by default), and how many pulls
\* and how many items per page the model follows.
RecursionLimit == 2

MaxPulls == 3

MaxPageSize == 2

\* No more answers than this reach one sequence: every pull sends at most
\* one request per nesting level.
MaxServed == MaxPulls * (RecursionLimit + 1)

\* The URLs a page names in its Link header.
NextUrl == <<"https://x", "/boards?page=2">>

NextUrlComma == <<"https://x", "/boards?ids=1", ",", "2">>

PrevUrl == <<"https://x", "/boards?page=1">>

\* One entry of a Link header: <url>; rel="name"
LinkEntry(url, rel) == <<"<">> \o url \o <<">", ";", " ", "rel=", "\"", rel, "\"">>

NoLink == <<>>

LinkNext == LinkEntry(NextUrl, "next")

LinkNextComma == LinkEntry(NextUrlComma, "next")

LinkPrev == LinkEntry(PrevUrl, "prev")

PageLinks == {NoLink, LinkNext, LinkNextComma, LinkPrev}

\* The 'next' entry a header carries as the server wrote it.
CarriedNext(link) ==
    CASE link = LinkNext -> NextUrl
      [] link = LinkNextComma -> NextUrlComma
      [] OTHER -> <<>>

\* The items of the page that answers the g-th GET of the sequence.
PageItems(g, n) == [i \in 1..n |-> ToString(<<g, i>>)]

\* A response that carries a page, and the other answers to a page request:
\* a server failure, and a success without a body.
PageResponse(items, link) ==
    [Response(200, Body(ToString(items), JList(items)), <<>>, "", <<>>)
        EXCEPT !.link = link]

PageFailure == Response(500, BError, <<>>, "", <<>>)

PageNoContent == Response(204, BEmpty, <<>>, "", <<>>)

PageAnswers(g) ==
    { PageResponse(PageItems(g, n), l) : n \in 0..MaxPageSize, l \in PageLinks }
        \cup {PageFailure, PageNoContent}

\* What the server may answer after the answers ps: a new page, a failure,
\* no content, or the first page once more (a 'next' link that leads back).
PageAnswersAfter(ps) ==
    PageAnswers(Len(ps) + 1)
        \cup (IF ps # <<>> /\ ps[1].status = 200 THEN {ps[1]} ELSE {})

\* parse_link_header of the headers that the servers of the model send,
\* computed once.
ParsedLinks == [l \in PageLinks |-> parse_link_header(l)]

\* PaginatedResponse.__init__: the items and the parsed Link header
PaginatedResponse(items, response) ==
    [items |-> items,
     links |-> IF response.link \in PageLinks THEN ParsedLinks[response.link]
               ELSE parse_link_header(response.link)]

\* self._current_page = None
NoPage == [items |-> NoValue, links |-> EmptyLinks]

\* PaginatedResponse.has_next, PaginatedResponse.next_url
has_next(page) == <<"next">> \in DOMAIN page.links

next_url(page) == page.links[<<"next">>]

\* The path and the params of the list endpoint the sequence reads.
IterPath == <<"/boards">>

IterParams == NoParams

\* What a pull hands to its caller: an item, end-of-sequence, or an error.
PullOutcome(k, item, exc) == [k |-> k, item |-> item, exc |-> exc]

NoPull == PullOutcome("-", "", "-")

\* PaginationIterator.__next__ from "Return next item from current page":
\* what it does with the current page and the cursor.  len() of a page
\* whose data is not a list raises.
IterStep(page, idx) ==
    IF page.items.t # "list" THEN "TypeError"
    ELSE IF idx < Len(page.items.items) THEN "item"
    ELSE IF has_next(page) THEN "fetch"
    ELSE "stop"

\* The executor stays as it is.
ExecutorUnchanged ==
    /\ UNCHANGED <<variant, cacheEnabled, cache, pc, call, sent, resp, fresp, result>>
    /\ UNCHANGED serverVars

\* The GET of the first page: self._http_client.get(self._path, params)
FetchFirst ==
    /\ Issue("get", "GET", IterPath, IterParams, TRUE,
             IfNoneMatch(cache, cacheEnabled, build_url(IterPath, TRUE)))
    /\ ppc' = "first"
    /\ pullOut' = NoPull
    /\ UNCHANGED <<current_page, index, depth, yielded>>

\* __next__ runs on with the page and the cursor at nesting depth d; settle
\* is what becomes of the executor when no request is sent.
IterRun(page, idx, d, settle) ==
    /\ current_page' = page
    /\ depth' = d
    /\ CASE IterStep(page, idx) = "item" ->
              /\ index' = idx + 1
              /\ pullOut' = PullOutcome("item", page.items.items[idx + 1], "-")
              /\ yielded' = Append(yielded, page.items.items[idx + 1])
              /\ ppc' = "idle"
              /\ settle
         [] IterStep(page, idx) = "fetch" ->
              /\ Issue("get", "GET", next_url(page), NoParams, FALSE,
                       IfNoneMatch(cache, cacheEnabled, build_url(next_url(page), FALSE)))
              /\ index' = idx
              /\ pullOut' = NoPull
              /\ ppc' = "next"
              /\ UNCHANGED yielded
         [] IterStep(page, idx) = "stop" ->
              /\ index' = idx
              /\ pullOut' = PullOutcome("stop", "", "StopIteration")
              /\ ppc' = "idle"
              /\ UNCHANGED yielded
              /\ settle
         [] OTHER ->
              /\ index' = idx
              /\ pullOut' = PullOutcome("raise", "", IterStep(page, idx))
              /\ ppc' = "idle"
              /\ UNCHANGED yielded
              /\ settle

\* Mutant of Pull: a pull after end-of-sequence starts over.
Pull_restarts ==
    /\ pc = "idle"
    /\ ppc = "idle"
    /\ pulls < MaxPulls
    /\ pulls' = pulls + 1
    /\ UNCHANGED <<pages, new_page>>
    /\ before_pull' = [page |-> current_page, index |-> index]
    /\ IF current_page = NoPage \/ pullOut.k = "stop"
       THEN FetchFirst
       ELSE IterRun(current_page, index, 0, ExecutorUnchanged)
    /\ UNCHANGED restVars

\* The caller pulls: PaginationIterator.__next__ / __anext__ up to its
\* result or its first request.
Pull ==
    /\ pc = "idle"
    /\ ppc = "idle"
    /\ pulls < MaxPulls
    /\ pulls' = pulls + 1
    /\ UNCHANGED <<pages, new_page>>
    /\ before_pull' = [page |-> current_page, index |-> index]
    /\ IF current_page = NoPage
       THEN FetchFirst
       ELSE IterRun(current_page, index, 0, ExecutorUnchanged)
    /\ UNCHANGED restVars

\* The server answers the pending page request.
PageArrives ==
    /\ pc = "awaiting"
    /\ ppc \in {"first", "next"}
    /\ \E r \in PageAnswersAfter(pages) :
          /\ ReceiveResponse(r)
          /\ pages' = IF Len(pages) < MaxServed THEN Append(pages, r) ELSE pages
    /\ UNCHANGED serverVars
    /\ UNCHANGED <<current_page, index, depth, ppc, pullOut, pulls, yielded, new_page,
                   before_pull>>
    /\ UNCHANGED restVars

\* Mutant of Resume: after next_page() the pull goes on at the same nesting
\* depth (a loop in place of the call of __next__ inside itself).
Resume_loop ==
    /\ pc = "done"
    /\ ppc \in {"first", "next"}
    /\ UNCHANGED <<pulls, pages, new_page, before_pull>>
    /\ IF result.k # "return"
       THEN /\ pullOut' = PullOutcome("raise", "", result.exc)
            /\ ppc' = "idle"
            /\ UNCHANGED <<current_page, index, depth, yielded>>
            /\ TakeOutcome
            /\ UNCHANGED serverVars
       ELSE \E page \in {PaginatedResponse(result.value, resp)} :
               IterRun(page, 0, depth, TakeOutcome /\ UNCHANGED serverVars)
    /\ UNCHANGED restVars

\* Mutant of Resume: a failed fetch rewinds the cursor to the start of the
\* current page.
Resume_rewinds ==
    /\ pc = "done"
    /\ ppc \in {"first", "next"}
    /\ UNCHANGED <<pulls, pages, new_page, before_pull>>
    /\ IF result.k # "return"
       THEN /\ pullOut' = PullOutcome("raise", "", result.exc)
            /\ ppc' = "idle"
            /\ index' = 0
            /\ UNCHANGED <<current_page, depth, yielded>>
            /\ TakeOutcome
            /\ UNCHANGED serverVars
       ELSE \E page \in {PaginatedResponse(result.value, resp)} :
            LET d == IF ppc = "next" THEN depth + 1 ELSE depth
            IN IF d >= RecursionLimit
               THEN /\ current_page' = page
                    /\ index' = 0
                    /\ depth' = d
                    /\ pullOut' = PullOutcome("raise", "", "RecursionError")
                    /\ ppc' = "idle"
                    /\ UNCHANGED yielded
                    /\ TakeOutcome
                    /\ UNCHANGED serverVars
               ELSE IterRun(page, 0, d, TakeOutcome /\ UNCHANGED serverVars)
    /\ UNCHANGED restVars

\* Mutant of Resume: a page that arrives replaces the current page but the
\* cursor stays where it was.
Resume_keeps_cursor ==
    /\ pc = "done"
    /\ ppc \in {"first", "next"}
    /\ UNCHANGED <<pulls, pages, new_page, before_pull>>
    /\ IF result.k # "return"
       THEN /\ pullOut' = PullOutcome("raise", "", result.exc)
            /\ ppc' = "idle"
            /\ UNCHANGED <<current_page, index, depth, yielded>>
            /\ TakeOutcome
            /\ UNCHANGED serverVars
       ELSE \E page \in {PaginatedResponse(result.value, resp)} :
            LET d == IF ppc = "next" THEN depth + 1 ELSE depth
            IN IF d >= RecursionLimit
               THEN /\ current_page' = page
                    /\ index' = index
                    /\ depth' = d
                    /\ pullOut' = PullOutcome("raise", "", "RecursionError")
                    /\ ppc' = "idle"
                    /\ UNCHANGED yielded
                    /\ TakeOutcome
                    /\ UNCHANGED serverVars
               ELSE IterRun(page, index, d, TakeOutcome /\ UNCHANGED serverVars)
    /\ UNCHANGED restVars

\* get() has returned or raised inside __next__: an error leaves the
\* sequence as it was; a page replaces the current page and resets the
\* cursor, and after next_page() __next__ calls itself.
Resume ==
    /\ pc = "done"
    /\ ppc \in {"first", "next"}
    /\ UNCHANGED <<pulls, pages, new_page, before_pull>>
    /\ IF result.k # "return"
       THEN /\ pullOut' = PullOutcome("raise", "", result.exc)
            /\ ppc' = "idle"
            /\ UNCHANGED <<current_page, index, depth, yielded>>
            /\ TakeOutcome
            /\ UNCHANGED serverVars
       ELSE \E page \in {PaginatedResponse(result.value, resp)} :
            LET d == IF ppc = "next" THEN depth + 1 ELSE depth
            IN IF d >= RecursionLimit
               THEN /\ current_page' = page
                    /\ index' = 0
                    /\ depth' = d
                    /\ pullOut' = PullOutcome("raise", "", "RecursionError")
                    /\ ppc' = "idle"
                    /\ UNCHANGED yielded
                    /\ TakeOutcome
                    /\ UNCHANGED serverVars
               ELSE IterRun(page, 0, d, TakeOutcome /\ UNCHANGED serverVars)
    /\ UNCHANGED restVars

IterInit ==
    /\ current_page = NoPage
    /\ index = 0
    /\ depth = 0
    /\ ppc = "idle"
    /\ pullOut = NoPull
    /\ pulls = 0
    /\ pages = <<>>
    /\ yielded = <<>>
    /\ new_page = NoPage
    /\ before_pull = [page |-> NoPage, index |-> 0]

\* A client constructed with a token; no file handle is open and no helper
\* function has been applied.
NotComputed == "<not computed>"

RestInit ==
    /\ token = "tokA"
    /\ session_token = NotGiven
    /\ authorization = AuthorizationOf(token, session_token)
    /\ handles = <<>>
    /\ tasks = <<>>
    /\ reactions = <<>>
    /\ passes = <<>>
    /\ arg = NotComputed
    /\ ret = NotComputed

\* HTTPClient.__init__ / AsyncHTTPClient.__init__: an empty cache, or none.
Init ==
    /\ account_slug = "123456"
    /\ variant \in {"sync", "async"}
    /\ cacheEnabled \in BOOLEAN
    /\ cache = EmptyCache
    /\ pc = "idle"
    /\ call = NoCall
    /\ sent = <<>>
    /\ resp = NoResp
    /\ fresp = NoResp
    /\ result = NoOutcome
    /\ version = InitialVersions
    /\ seen = NothingSeen
    /\ received = NothingReceived
    /\ plainSent = <<>>
    /\ plainResult = NoOutcome
    /\ IterInit
    /\ RestInit

Next ==
    \/ \E p \in Paths, a \in IncludeAccount : Get(p, NoParams, a)
    \/ \E p \in Paths, a \in IncludeAccount : Post(p, a)
    \/ \E p \in Paths, a \in IncludeAccount : Put(p, a)
    \/ \E p \in Paths, a \in IncludeAccount : Patch(p, a)
    \/ \E p \in Paths, a \in IncludeAccount : Delete(p, a)
    \/ \E p \in Paths, a \in IncludeAccount : PostMultipart(p, a)
    \/ \E p \in Paths, a \in IncludeAccount : PutMultipart(p, a)
    \/ Receive
    \/ ReceiveFollow
    \/ Finish

Spec == Init /\ [][Next]_vars

\* C20: an operation has at most two requests in flight or answered; the
\* second exists only once the first response has arrived, is a GET, and
\* its response ends the operation; a first response of status >= 400 ends
\* the operation with one request sent and an exception raised.
C20_NoRetrySequential ==
    /\ Len(sent) <= 2
    /\ pc = "awaiting" => (Len(sent) = 1 /\ resp = NoResp)
    /\ Len(sent) = 2 =>
          (resp # NoResp /\ sent[2].method = "GET" /\ pc \in {"awaiting_follow", "done"})
    /\ fresp # NoResp => (pc = "done" /\ Len(sent) = 2)
    /\ resp.status >= 400 => (Len(sent) = 1 /\ pc = "done" /\ result.k = "raise")

\* A POST was answered 500: one request, an exception, no second attempt.
C20_Witness ==
    /\ call.op = "post"
    /\ resp.status >= 500
    /\ pc = "done"
    /\ Len(sent) = 1
    /\ result.k = "raise"

(***************************************************************************)
(* The response cache against a server that honours If-None-Match          *)
(*                                                                         *)
(* One client with the cache enabled sends GETs on one path with varying   *)
(* query parameters.  A second client without a cache sends the same GET   *)
(* to the same server at the same moment; its request and outcome are      *)
(* plainSent and plainResult.                                              *)
(***************************************************************************)

InitCache ==
    /\ account_slug = "123456"
    /\ variant \in {"sync", "async"}
    /\ cacheEnabled = TRUE
    /\ cache = EmptyCache
    /\ pc = "idle"
    /\ call = NoCall
    /\ sent = <<>>
    /\ resp = NoResp
    /\ fresp = NoResp
    /\ result = NoOutcome
    /\ version = InitialVersions
    /\ seen = NothingSeen
    /\ received = NothingReceived
    /\ plainSent = <<>>
    /\ plainResult = NoOutcome
    /\ IterInit
    /\ RestInit

\* The resource changes on the server.
ServerUpdate(r) ==
    /\ pc = "idle"
    /\ version[r] < MaxVersion
    /\ version' = [version EXCEPT ![r] = @ + 1]
    /\ UNCHANGED <<variant, cacheEnabled, cache, pc, call, sent, resp, fresp, result,
                   seen, received, plainSent, plainResult>>
    /\ UNCHANGED iterVars
    /\ UNCHANGED restVars

\* The request of the client without a cache for the same GET.
PlainRequest(c) ==
    Request("GET", c.url, build_params(c.params), IfNoneMatch(EmptyCache, FALSE, c.url))

\* The server answers the pending GET of both clients.
ServerAnswers(mood) ==
    /\ pc = "awaiting"
    /\ LET r == ResourceOf(call)
           plain == PlainRequest(call)
       IN /\ ReceiveResponse(Answer(r, version[r], sent[1].if_none_match, mood))
          /\ plainSent' = <<plain>>
          /\ plainResult' =
                GetOutcome(EmptyCache, FALSE, variant, call.url,
                           Answer(r, version[r], plain.if_none_match, mood), NoResp)
    /\ UNCHANGED <<version, seen, received>>
    /\ UNCHANGED iterVars
    /\ UNCHANGED restVars

\* The caller takes the outcome; what the GET returned is remembered.
FinishGet ==
    /\ pc = "done"
    /\ TakeOutcome
    /\ seen' = [seen EXCEPT ![ResourceOf(call)] =
                   IF result.k = "return" /\ resp.etag # ""
                   THEN [etag |-> resp.etag, data |-> result.value]
                   ELSE [etag |-> "", data |-> PyNone]]
    /\ received' = [received EXCEPT ![ResourceOf(call)] =
                       IF result.k = "return" /\ resp.status # 304 /\ resp.etag # ""
                       THEN @ \cup {[etag |-> resp.etag, data |-> result.value]}
                       ELSE @]
    /\ plainSent' = <<>>
    /\ plainResult' = NoOutcome
    /\ UNCHANGED version
    /\ UNCHANGED iterVars
    /\ UNCHANGED restVars

NextCache ==
    \/ \E p \in Paths, q \in CacheParams : Get(p, q, TRUE)
    \/ \E mood \in ServerMoods : ServerAnswers(mood)
    \/ FinishGet
    \/ \E r \in Resources : ServerUpdate(r)

SpecCache == InitCache /\ [][NextCache]_vars

(***************************************************************************)
(* _build_params applied to a parameter mapping                            *)
(***************************************************************************)

ParamKeys == {<<"tag_ids">>, <<"done">>, <<"x">>}

ParamValues ==
    {PNone, PBool("True"), PBool("False"), PList(<<"a", "b">>), PList(<<>>),
     PStr("closed"), PStr(""), PInt("0")}

\* Every mapping from some of the keys to values.
ParamMappings ==
    UNION { { {<<k, f[k]>> : k \in ks} : f \in [ks -> ParamValues] }
            : ks \in SUBSET ParamKeys }

RestOfClientIdle ==
    /\ account_slug = "123456"
    /\ variant \in {"sync", "async"}
    /\ cacheEnabled = TRUE
    /\ cache = EmptyCache
    /\ pc = "idle"
    /\ call = NoCall
    /\ sent = <<>>
    /\ resp = NoResp
    /\ fresp = NoResp
    /\ result = NoOutcome
    /\ version = InitialVersions
    /\ seen = NothingSeen
    /\ received = NothingReceived
    /\ plainSent = <<>>
    /\ plainResult = NoOutcome
    /\ IterInit
    /\ token = "tokA"
    /\ session_token = NotGiven
    /\ authorization = AuthorizationOf(token, session_token)
    /\ handles = <<>>
    /\ tasks = <<>>
    /\ reactions = <<>>
    /\ passes = <<>>

InitParams ==
    /\ RestOfClientIdle
    /\ arg \in ParamMappings
    /\ ret = {}

\* self._build_params(params)
BuildParams ==
    /\ pc = "idle"
    /\ ret' = build_params(arg)
    /\ pc' = "done"
    /\ UNCHANGED <<variant, cacheEnabled, cache, call, sent, resp, fresp, result>>
    /\ UNCHANGED <<serverVars, iterVars, clientVars, handles, arg, taskVars, passes>>

NextParams == BuildParams

SpecParams == InitParams /\ [][NextParams]_vars

KeysOf(mapping) == {kv[1] : kv \in mapping}

FValue(t, s, items, fields) == [t |-> t, s |-> s, items |-> items, fields |-> fields]

FNone == FValue("NoneType", "None", <<>>, <<>>)

FBool(b) == FValue("bool", b, <<>>, <<>>)

FStr(x) == FValue("str", x, <<>>, <<>>)

FInt(n) == FValue("int", n, <<>>, <<>>)

FList(items) == FValue("list", "", items, <<>>)

FDict(fields) == FValue("dict", "", <<>>, fields)

\* str(value) of a scalar
StrOf(value) == value.s

\* str(value).lower() of a bool
LowerOf(value) == LowerBool(value.s)

\* f"{prefix}[{key}]" if prefix else key
FullKey(prefix, key) ==
    IF prefix # <<>> THEN prefix \o <<"[", key, "]">> ELSE <<key>>

\* result[k] = v on a dict kept as its entries in insertion order
DictSet(res, k, v) ==
    IF \E i \in DOMAIN res : res[i][1] = k
    THEN [i \in DOMAIN res |-> IF res[i][1] = k THEN <<k, v>> ELSE res[i]]
    ELSE Append(res, <<k, v>>)

RECURSIVE DictUpdate(_, _)
\* result.update(other)
DictUpdate(res, other) ==
    IF other = <<>> THEN res
    ELSE DictUpdate(DictSet(res, other[1][1], other[1][2]), Tail(other))

RECURSIVE SetEach(_, _, _)
\* for item in value: result[f"{full_key}[]"] = str(item)
SetEach(res, full_key, items) ==
    IF items = <<>> THEN res
    ELSE SetEach(DictSet(res, full_key \o <<"[]">>, StrOf(items[1])),
                 full_key, Tail(items))

RECURSIVE FlattenInto(_, _, _)
RECURSIVE flatten_data_for_multipart(_, _)
\* The loop of _flatten_data_for_multipart over data.items()
FlattenInto(res, fields, prefix) ==
    IF fields = <<>> THEN res
    ELSE LET key == fields[1][1]
             value == fields[1][2]
             full_key == FullKey(prefix, key)
             after ==
                 CASE value.t = "dict" ->
                          DictUpdate(res, flatten_data_for_multipart(value, full_key))
                   [] value.t = "list" -> SetEach(res, full_key, value.items)
                   [] value.t = "bool" -> DictSet(res, full_key, LowerOf(value))
                   [] value.t = "NoneType" -> res
                   [] OTHER -> DictSet(res, full_key, StrOf(value))
         IN FlattenInto(after, Tail(fields), prefix)

\* HTTPClient._flatten_data_for_multipart
flatten_data_for_multipart(data, prefix) ==
    IF data.t = "NoneType" \/ data.fields = <<>> THEN <<>>
    ELSE FlattenInto(<<>>, data.fields, prefix)

FormScalars == {FNone, FBool("True"), FBool("False"), FStr("x"), FInt("7")}

FormLists == {FList(<<>>), FList(<<FStr("a")>>), FList(<<FStr("a"), FStr("b")>>),
              FList(<<FInt("1"), FInt("2"), FInt("3")>>)}

FormDicts ==
    {FDict(<<>>), FDict(<<<<"title", FStr("x")>>>>),
     FDict(<<<<"title", FStr("x")>>, <<"golden", FBool("True")>>>>),
     FDict(<<<<"tag_ids", FList(<<FStr("a"), FStr("b")>>)>>>>),
     FDict(<<<<"meta", FDict(<<<<"note", FNone>>, <<"pos", FInt("7")>>>>)>>>>)}

FormValues == FormScalars \cup FormLists \cup FormDicts

RECURSIVE FieldsOver(_)
\* The mappings that give some of the keys, in order, a value.
FieldsOver(keys) ==
    IF keys = <<>> THEN {<<>>}
    ELSE LET rest == FieldsOver(Tail(keys))
         IN rest \cup { <<<<keys[1], v>>>> \o r : v \in FormValues, r \in rest }

FormData == {FNone} \cup { FDict(f) : f \in FieldsOver(<<"card", "tag_ids", "draft">>) }

InitFlatten ==
    /\ RestOfClientIdle
    /\ arg \in FormData
    /\ ret = <<>>

\* prepared_data = self._flatten_data_for_multipart(data)
FlattenData ==
    /\ pc = "idle"
    /\ ret' = flatten_data_for_multipart(arg, <<>>)
    /\ pc' = "done"
    /\ UNCHANGED <<variant, cacheEnabled, cache, call, sent, resp, fresp, result>>
    /\ UNCHANGED <<serverVars, iterVars, clientVars, handles, arg, taskVars, passes>>

NextFlatten == FlattenData

SpecFlatten == InitFlatten /\ [][NextFlatten]_vars

RECURSIVE ExpectedEntries(_, _)
RECURSIVE ExpectedOfFields(_, _)
\* The form entries the flattening is described to produce for a mapping.
ExpectedOfFields(fields, prefix) ==
    IF fields = <<>> THEN <<>>
    ELSE LET key == IF prefix = <<>> THEN <<fields[1][1]>>
                    ELSE prefix \o <<"[", fields[1][1], "]">>
             value == fields[1][2]
             here ==
                 CASE value.t = "dict" -> ExpectedEntries(value, key)
                   [] value.t = "list" ->
                          [i \in DOMAIN value.items |-> <<key \o <<"[]">>, value.items[i].s>>]
                   [] value.t = "bool" ->
                          << <<key, IF value.s = "True" THEN "true" ELSE "false">> >>
                   [] value.t = "NoneType" -> <<>>
                   [] OTHER -> << <<key, value.s>> >>
         IN here \o ExpectedOfFields(Tail(fields), prefix)

ExpectedEntries(data, prefix) ==
    IF data.t = "NoneType" THEN <<>> ELSE ExpectedOfFields(data.fields, prefix)

Occurrences(e, entries) == Cardinality({i \in DOMAIN entries : entries[i] = e})

SameEntries(a, b) ==
    /\ Len(a) = Len(b)
    /\ \A i \in DOMAIN a : Occurrences(a[i], a) = Occurrences(a[i], b)

\* C16: the flattened form holds one entry 'a[b]...' per nested scalar, one
\* 'field[]' entry per element of a list (n entries for n elements),
\* 'true'/'false' for booleans, and no entry for None.
C16_MultipartFlattening ==
    pc = "done" => SameEntries(ret, ExpectedEntries(arg, <<>>))

(***************************************************************************)
(* Multipart calls with files: the handles _prepare_files opens            *)
(***************************************************************************)

\* The number of handles after which no further call is started.
MaxHandles == 2

\* A file argument: a path of an existing file, a path of a missing file,
\* or a (filename, file_obj, content_type) tuple of the caller.
FilePath(name, exists) == [kind |-> "path", name |-> name, exists |-> exists]

FileTuple(name) == [kind |-> "tuple", name |-> name, exists |-> TRUE]

FileSpecs == {FilePath("a.png", TRUE), FilePath("gone.pdf", FALSE), FileTuple("c.gif")}

\* files: None, or up to two fields in insertion order.
FilesArgs == {<<>>} \cup {<<f>> : f \in FileSpecs}
                 \cup {<<f, g>> : f \in FileSpecs, g \in FileSpecs}

\* open(path, "rb")
Handle(name) == [path |-> name, closed |-> FALSE]

RECURSIVE prepare_files(_, _)
\* HTTPClient._prepare_files: the handles opened, and whether open() raised.
prepare_files(files, opened) ==
    IF files = <<>> THEN [opened |-> opened, raised |-> FALSE]
    ELSE IF files[1].kind = "path"
         THEN IF files[1].exists
              THEN prepare_files(Tail(files), Append(opened, Handle(files[1].name)))
              ELSE [opened |-> opened, raised |-> TRUE]
         ELSE prepare_files(Tail(files), opened)

\* post_multipart / put_multipart with files, up to the request or up to
\* the exception of _prepare_files.
MultipartWithFiles(op, method, path, include_account, files) ==
    /\ LET prepared == prepare_files(files, <<>>)
       IN /\ handles' = handles \o prepared.opened
          /\ IF prepared.raised
             THEN /\ result' = Untyped("FileNotFoundError")
                  /\ call' = Call(op, method, path, NoParams, include_account)
                  /\ pc' = "done"
                  /\ UNCHANGED <<variant, cacheEnabled, cache, sent, resp, fresp>>
                  /\ UNCHANGED serverVars
             ELSE Issue(op, method, path, NoParams, include_account, "")
    /\ arg' = files
    /\ UNCHANGED iterVars
    /\ UNCHANGED <<clientVars, ret, taskVars, passes>>

PostMultipartFiles(path, include_account, files) ==
    /\ pc = "idle"
    /\ Len(handles) < MaxHandles
    /\ MultipartWithFiles("post_multipart", "POST", path, include_account, files)

PutMultipartFiles(path, include_account, files) ==
    /\ pc = "idle"
    /\ Len(handles) < MaxHandles
    /\ MultipartWithFiles("put_multipart", "PUT", path, include_account, files)

\* The runtime finalizes a file object nobody refers to any more: after
\* the call has ended, at a moment the garbage collector chooses.
Finalize ==
    /\ pc \in {"done", "idle"}
    /\ \E i \in DOMAIN handles :
          /\ ~handles[i].closed
          /\ handles' = [handles EXCEPT ![i].closed = TRUE]
    /\ UNCHANGED <<variant, cacheEnabled, cache, pc, call, sent, resp, fresp, result>>
    /\ UNCHANGED serverVars
    /\ UNCHANGED iterVars
    /\ UNCHANGED <<clientVars, arg, ret, taskVars, passes>>

InitFiles ==
    /\ RestOfClientIdle
    /\ arg = <<>>
    /\ ret = NotComputed

NextFiles ==
    \/ \E p \in Paths, a \in IncludeAccount, f \in FilesArgs : PostMultipartFiles(p, a, f)
    \/ \E p \in Paths, a \in IncludeAccount, f \in FilesArgs : PutMultipartFiles(p, a, f)
    \/ Receive
    \/ ReceiveFollow
    \/ Finish
    \/ Finalize

SpecFiles == InitFiles /\ [][NextFiles]_vars

\* C17: once a multipart call has returned or raised, every handle the
\* executor opened for a path-valued file is closed.
C17_HandlesClosedAtReturn ==
    pc = "done" => \A i \in DOMAIN handles : handles[i].closed

(***************************************************************************)
(* parse_link_header applied to a Link header                              *)
(***************************************************************************)

\* The most segments a header of this specification has.
MaxSegments == 3

FirstUrl == <<"https://x", "/boards?page=1">>

\* A segment of a header: an entry <url>; rel="name", or text that does not
\* match the pattern.
Entry(url, rel) == [entry |-> TRUE, url |-> url, rel |-> <<rel>>, text |-> LinkEntry(url, rel)]

Malformed(text) == [entry |-> FALSE, url |-> <<>>, rel |-> <<>>, text |-> text]

Segments ==
    {Entry(NextUrl, "next"), Entry(NextUrlComma, "next"), Entry(PrevUrl, "prev"),
     Entry(FirstUrl, "first"),
     Malformed(<<"garbage">>), Malformed(<<"<">> \o NextUrl \o <<">">>), Malformed(<<>>)}

RECURSIVE SegmentLists(_)
SegmentLists(n) ==
    IF n = 0 THEN {<<>>}
    ELSE LET shorter == SegmentLists(n - 1)
         IN shorter \cup { Append(l, g) : l \in {x \in shorter : Len(x) = n - 1},
                                          g \in Segments }

RECURSIVE HeaderOf(_)
\* The header text: the segments joined by ", ".  No segment at all is the
\* absent (None) or empty header, which the parser treats alike.
HeaderOf(segments) ==
    IF segments = <<>> THEN <<>>
    ELSE IF Len(segments) = 1 THEN segments[1].text
    ELSE segments[1].text \o <<",", " ">> \o HeaderOf(Tail(segments))

InitLink ==
    /\ RestOfClientIdle
    /\ arg \in SegmentLists(MaxSegments)
    /\ ret = EmptyLinks

\* parse_link_header(response.headers.get("Link"))
ParseLink ==
    /\ pc = "idle"
    /\ ret' = parse_link_header(HeaderOf(arg))
    /\ pc' = "done"
    /\ UNCHANGED <<variant, cacheEnabled, cache, call, sent, resp, fresp, result>>
    /\ UNCHANGED <<serverVars, iterVars, clientVars, handles, arg, taskVars, passes>>

NextLink == ParseLink

SpecLink == InitLink /\ [][NextLink]_vars

\* The last entry of the header with the given relation name.
LastEntry(segments, rel) ==
    LET i == CHOOSE i \in DOMAIN segments :
                 /\ segments[i].entry /\ segments[i].rel = rel
                 /\ \A j \in (i + 1)..Len(segments) :
                        ~(segments[j].entry /\ segments[j].rel = rel)
    IN segments[i]

\* C18: the parsed mapping has exactly the relation names of the header's
\* entries, each mapped to the url of its entry, whatever the url contains;
\* text that is no entry contributes nothing; no header gives the empty
\* mapping.
C18_LinkHeaderParsing ==
    pc = "done" =>
        /\ DOMAIN ret = {arg[i].rel : i \in {j \in DOMAIN arg : arg[j].entry}}
        /\ \A rel \in DOMAIN ret : ret[rel] = LastEntry(arg, rel).url
        /\ arg = <<>> => ret = EmptyLinks

(***************************************************************************)
(* Construction of the client, then its requests                           *)
(***************************************************************************)

Tokens == {NotGiven, "", "tokA"}

SessionTokens == {NotGiven, "", "sessB"}

InitAuth ==
    /\ account_slug = "123456"
    /\ variant \in {"sync", "async"}
    /\ cacheEnabled = TRUE
    /\ cache = EmptyCache
    /\ pc = "unbuilt"
    /\ call = NoCall
    /\ sent = <<>>
    /\ resp = NoResp
    /\ fresp = NoResp
    /\ result = NoOutcome
    /\ version = InitialVersions
    /\ seen = NothingSeen
    /\ received = NothingReceived
    /\ plainSent = <<>>
    /\ plainResult = NoOutcome
    /\ IterInit
    /\ token \in Tokens
    /\ session_token \in SessionTokens
    /\ authorization = <<>>
    /\ handles = <<>>
    /\ tasks = <<>>
    /\ reactions = <<>>
    /\ passes = <<>>
    /\ arg = NotComputed
    /\ ret = NotComputed

\* HTTPClient.__init__ / AsyncHTTPClient.__init__
Construct ==
    /\ pc = "unbuilt"
    /\ IF ConstructionFails(token, session_token)
       THEN /\ result' = Untyped("ValueError")
            /\ pc' = "failed"
            /\ UNCHANGED authorization
       ELSE /\ authorization' = AuthorizationOf(token, session_token)
            /\ pc' = "idle"
            /\ UNCHANGED result
    /\ UNCHANGED <<variant, cacheEnabled, cache, call, sent, resp, fresp>>
    /\ UNCHANGED <<serverVars, iterVars>>
    /\ UNCHANGED <<token, session_token, account_slug, handles, arg, ret, taskVars, passes>>

NextAuth ==
    \/ Construct
    \/ \E p \in Paths, a \in IncludeAccount : Get(p, NoParams, a)
    \/ \E p \in Paths, a \in IncludeAccount : Post(p, a)
    \/ \E p \in Paths, a \in IncludeAccount : PostMultipart(p, a)
    \/ \E p \in Paths, a \in IncludeAccount : PutMultipart(p, a)
    \/ Receive
    \/ ReceiveFollow
    \/ Finish

SpecAuth == InitAuth /\ [][NextAuth]_vars

\* The credential the requests are to carry.
Credential == IF Truthy(token) THEN token ELSE session_token

\* C19: construction has failed with ValueError, and no request is ever
\* sent, exactly when neither the token nor the session token is a
\* non-empty string; otherwise every request sent, multipart requests and
\* Location follow-ups included, carries Authorization: Bearer <t> with t
\* the token if given and the session token otherwise.
C19_BearerOnEveryRequest ==
    /\ pc # "unbuilt" =>
          (pc = "failed" <=> (~Truthy(token) /\ ~Truthy(session_token)))
    /\ pc = "failed" => (result.k = "raise" /\ result.exc = "ValueError" /\ sent = <<>>)
    /\ \A i \in DOMAIN sent : sent[i].authorization = <<"Bearer ", Credential>>

\* A multipart request and its Location follow-up have been sent by a
\* client built from an empty token and a session token.
C19_Witness ==
    /\ call.op = "post_multipart"
    /\ Len(sent) = 2
    /\ token = ""
    /\ session_token = "sessB"
    /\ \A i \in DOMAIN sent : sent[i].authorization = <<"Bearer ", "sessB">>

(***************************************************************************)
(* One Auto-Pagination Sequence on one client, against any server          *)
(***************************************************************************)

InitPages ==
    /\ account_slug = "123456"
    /\ variant \in {"sync", "async"}
    /\ cacheEnabled = TRUE
    /\ cache = EmptyCache
    /\ pc = "idle"
    /\ call = NoCall
    /\ sent = <<>>
    /\ resp = NoResp
    /\ fresp = NoResp
    /\ result = NoOutcome
    /\ version = InitialVersions
    /\ seen = NothingSeen
    /\ received = NothingReceived
    /\ plainSent = <<>>
    /\ plainResult = NoOutcome
    /\ IterInit
    /\ RestInit

NextPages ==
    \/ Pull
    \/ PageArrives
    \/ Resume

SpecPages == InitPages /\ [][NextPages]_vars

\* Every request is answered or times out (timeout=30.0, http.py:56, 80),
\* and the interpreter runs the pull on once get() has returned or raised.
SpecPagesFair == SpecPages /\ WF_vars(PageArrives) /\ WF_vars(Resume)

(***************************************************************************)
(* Account prefixing: calls with and without include_account on clients    *)
(* with and without an account slug, then one Auto-Pagination Sequence     *)
(***************************************************************************)

AccountSlugs == {NotGiven, "", "123456"}

InitPrefix ==
    /\ account_slug \in AccountSlugs
    /\ variant \in {"sync", "async"}
    /\ cacheEnabled = FALSE
    /\ cache = EmptyCache
    /\ pc = "idle"
    /\ call = NoCall
    /\ sent = <<>>
    /\ resp = NoResp
    /\ fresp = NoResp
    /\ result = NoOutcome
    /\ version = InitialVersions
    /\ seen = NothingSeen
    /\ received = NothingReceived
    /\ plainSent = <<>>
    /\ plainResult = NoOutcome
    /\ IterInit
    /\ token = "tokA"
    /\ session_token = NotGiven
    /\ authorization = AuthorizationOf(token, session_token)
    /\ handles = <<>>
    /\ tasks = <<>>
    /\ reactions = <<>>
    /\ passes = <<>>
    /\ arg = NotComputed
    /\ ret = NotComputed

\* Calls of the caller before it starts to pull the sequence.
CallGet(path, include_account) ==
    /\ ppc = "idle"
    /\ pulls = 0
    /\ Get(path, NoParams, include_account)

CallPost(path, include_account) ==
    /\ ppc = "idle"
    /\ pulls = 0
    /\ Post(path, include_account)

CallReceive ==
    /\ ppc = "idle"
    /\ Receive

CallReceiveFollow ==
    /\ ppc = "idle"
    /\ ReceiveFollow

CallFinish ==
    /\ ppc = "idle"
    /\ Finish

NextPrefix ==
    \/ \E p \in Paths, a \in BOOLEAN : CallGet(p, a)
    \/ \E p \in Paths, a \in BOOLEAN : CallPost(p, a)
    \/ CallReceive
    \/ CallReceiveFollow
    \/ CallFinish
    \/ Pull
    \/ PageArrives
    \/ Resume

SpecPrefix == InitPrefix /\ [][NextPrefix]_vars

\* The url begins with the account prefix twice.
PrefixedTwice(url) ==
    /\ Len(url) >= 4
    /\ url[1] = "/" /\ url[2] = account_slug
    /\ url[3] = "/" /\ url[4] = account_slug

\* The url is a stretch of the text, with nothing added.
PartOf(url, text) ==
    \E i \in 1..(Len(text) + 1), j \in 0..Len(text) : url = SubSeq(text, i, j)

\* C21: the first request of a call goes to '/<account_slug><path>' exactly
\* when the call has include_account true and an account slug is
\* configured, and to the bare path otherwise; the GET of a next page goes
\* to the 'next' URL as the server wrote it, the Location follow-up to a
\* stretch of the Location header; no request carries the prefix twice.
C21_AccountPrefixOnce ==
    /\ sent # <<>> =>
          sent[1].url = IF call.include_account /\ account_slug \notin {NotGiven, ""}
                        THEN <<"/", account_slug>> \o call.path
                        ELSE call.path
    /\ (sent # <<>> /\ ppc = "next") =>
          (sent[1].url \in {NextUrl, NextUrlComma} /\ ~call.include_account)
    /\ Len(sent) = 2 => PartOf(sent[2].url, resp.location)
    /\ \A i \in DOMAIN sent : ~PrefixedTwice(sent[i].url)

\* The GET of a next page is in flight on a client with an account slug.
C21_Witness ==
    /\ ppc = "next"
    /\ pc = "awaiting"
    /\ account_slug = "123456"
    /\ sent[1].url = NextUrl

(***************************************************************************)
(* Concurrent GETs on one URL of one AsyncHTTPClient                       *)
(*                                                                         *)
(* Each task runs AsyncHTTPClient.get; the event loop switches tasks at    *)
(* the await of the request.  The server is the one of the response-cache  *)
(* specification.                                                          *)
(***************************************************************************)

\* The tasks awaited together (asyncio.gather of this many GETs).
MaxTasks == 2

TaskIds == 1..MaxTasks

TaskPath == <<"/boards">>

\* A task: where it is, the If-None-Match it sent, the body that was cached
\* with that validator when it sent it, the response and the outcome.
Task(p, inm, held, r, out) ==
    [pc |-> p, inm |-> inm, held |-> held, resp |-> r, result |-> out]

IdleTask == Task("idle", "", PyNone, NoResp, NoOutcome)

InitAsync ==
    /\ account_slug = "123456"
    /\ variant = "async"
    /\ cacheEnabled = TRUE
    /\ cache = EmptyCache
    /\ pc = "idle"
    /\ call = NoCall
    /\ sent = <<>>
    /\ resp = NoResp
    /\ fresp = NoResp
    /\ result = NoOutcome
    /\ version = InitialVersions
    /\ seen = NothingSeen
    /\ received = NothingReceived
    /\ plainSent = <<>>
    /\ plainResult = NoOutcome
    /\ IterInit
    /\ token = "tokA"
    /\ session_token = NotGiven
    /\ authorization = AuthorizationOf(token, session_token)
    /\ handles = <<>>
    /\ arg = NotComputed
    /\ ret = NotComputed
    /\ tasks = [t \in TaskIds |-> IdleTask]
    /\ reactions = <<>>
    /\ passes = <<>>

TaskFrame ==
    /\ UNCHANGED <<variant, cacheEnabled, pc, call, sent, resp, fresp, result>>
    /\ UNCHANGED <<serverVars, iterVars, clientVars, handles, arg, ret, reactions, passes>>

\* AsyncHTTPClient.get up to the await: the cache is read, the request sent.
TaskSend(t) ==
    /\ tasks[t].pc = "idle"
    /\ LET url == build_url(TaskPath, TRUE)
       IN tasks' = [tasks EXCEPT ![t] =
                       Task("awaiting", IfNoneMatch(cache, cacheEnabled, url),
                            ETagCache_get(cache, url).data, NoResp, NoOutcome)]
    /\ UNCHANGED cache
    /\ TaskFrame

\* The server answers the request of a task.
TaskAnswered(t, mood) ==
    /\ tasks[t].pc = "awaiting"
    /\ LET r == <<build_url(TaskPath, TRUE), build_params(NoParams)>>
       IN tasks' = [tasks EXCEPT ![t].pc = "answered",
                                 ![t].resp = Answer(r, version[r], tasks[t].inm, mood)]
    /\ UNCHANGED cache
    /\ TaskFrame

\* AsyncHTTPClient.get after the await: a 304 is answered from the cache as
\* it is now; another response is interpreted and stored.
TaskResume(t) ==
    /\ tasks[t].pc = "answered"
    /\ LET url == build_url(TaskPath, TRUE)
           r == tasks[t].resp
       IN /\ tasks' = [tasks EXCEPT ![t].pc = "done",
                                    ![t].result = GetOutcome(cache, cacheEnabled, variant,
                                                             url, r, NoResp)]
          /\ cache' = GetCache(cache, cacheEnabled, variant, url, r, NoResp)
    /\ TaskFrame

\* The caller takes the outcome of the task; the task may run another GET.
TaskFinish(t) ==
    /\ tasks[t].pc = "done"
    /\ tasks' = [tasks EXCEPT ![t] = IdleTask]
    /\ UNCHANGED cache
    /\ TaskFrame

NextAsync ==
    \/ \E t \in TaskIds : TaskSend(t)
    \/ \E t \in TaskIds, mood \in ServerMoods : TaskAnswered(t, mood)
    \/ \E t \in TaskIds : TaskResume(t)
    \/ \E t \in TaskIds : TaskFinish(t)
    \/ \E r \in Resources : ServerUpdate(r)

SpecAsync == InitAsync /\ [][NextAsync]_vars

\* C25: a GET that was answered 304 returns the body that was cached with
\* the validator it sent, whatever the other GETs stored in between.
C25_NotModifiedReturnsOwnEntry ==
    \A t \in DOMAIN tasks :
        (tasks[t].pc = "done" /\ tasks[t].resp.status = 304) =>
            tasks[t].result = Return(tasks[t].held)

(***************************************************************************)
(* next_page() on one Single-Page Result held by the caller                *)
(*                                                                         *)
(* current_page is the result the caller holds, pages[1] the response it   *)
(* was built from and pages[2] the last response to a next_page() request. *)
(***************************************************************************)

InitNextPage ==
    /\ account_slug = "123456"
    /\ variant \in {"sync", "async"}
    /\ cacheEnabled = TRUE
    /\ cache = EmptyCache
    /\ pc = "idle"
    /\ call = NoCall
    /\ sent = <<>>
    /\ resp = NoResp
    /\ fresp = NoResp
    /\ result = NoOutcome
    /\ version = InitialVersions
    /\ seen = NothingSeen
    /\ received = NothingReceived
    /\ plainSent = <<>>
    /\ plainResult = NoOutcome
    /\ \E r \in PageAnswers(1) :
          /\ r.status = 200
          /\ pages = <<r>>
          /\ current_page = PaginatedResponse(r.body.json, r)
    /\ index = 0
    /\ depth = 0
    /\ ppc = "idle"
    /\ pullOut = NoPull
    /\ pulls = 0
    /\ yielded = <<>>
    /\ new_page = NoPage
    /\ before_pull = [page |-> NoPage, index |-> 0]
    /\ RestInit

\* PaginatedResponse.next_page / AsyncPaginatedResponse.next_page up to its
\* request: without a 'next' relation it raises StopIteration
\* (StopAsyncIteration) and sends nothing.
next_page ==
    /\ pc = "idle"
    /\ ppc = "idle"
    /\ pulls < MaxPulls
    /\ pulls' = pulls + 1
    /\ new_page' = NoPage
    /\ UNCHANGED before_pull
    /\ IF ~has_next(current_page)
       THEN /\ pullOut' = PullOutcome("stop", "",
                            IF variant = "sync" THEN "StopIteration"
                            ELSE "StopAsyncIteration")
            /\ ppc' = "idle"
            /\ ExecutorUnchanged
       ELSE /\ Issue("get", "GET", next_url(current_page), NoParams, FALSE,
                     IfNoneMatch(cache, cacheEnabled,
                                 build_url(next_url(current_page), FALSE)))
            /\ pullOut' = NoPull
            /\ ppc' = "next_page"
    /\ UNCHANGED <<current_page, index, depth, pages, yielded>>
    /\ UNCHANGED restVars

\* The server answers the request of next_page().
NextPageArrives ==
    /\ pc = "awaiting"
    /\ ppc = "next_page"
    /\ \E r \in PageAnswers(2) :
          /\ ReceiveResponse(r)
          /\ pages' = <<pages[1], r>>
    /\ UNCHANGED serverVars
    /\ UNCHANGED <<current_page, index, depth, ppc, pullOut, pulls, yielded, new_page,
                   before_pull>>
    /\ UNCHANGED restVars

\* Mutant of NextPageReturns: the result replaces the page it was asked of.
NextPageReturns_in_place ==
    /\ pc = "done"
    /\ ppc = "next_page"
    /\ IF result.k # "return"
       THEN /\ pullOut' = PullOutcome("raise", "", result.exc)
            /\ UNCHANGED <<new_page, current_page>>
       ELSE /\ pullOut' = PullOutcome("page", "", "-")
            /\ new_page' = PaginatedResponse(result.value, resp)
            /\ current_page' = PaginatedResponse(result.value, resp)
    /\ ppc' = "idle"
    /\ TakeOutcome
    /\ UNCHANGED serverVars
    /\ UNCHANGED <<index, depth, pulls, pages, yielded, before_pull>>
    /\ UNCHANGED restVars

\* get() has returned or raised inside next_page(): a new Single-Page Result
\* is built from the data and the response (pagination.py:54-62).
NextPageReturns ==
    /\ pc = "done"
    /\ ppc = "next_page"
    /\ IF result.k # "return"
       THEN /\ pullOut' = PullOutcome("raise", "", result.exc)
            /\ UNCHANGED new_page
       ELSE /\ pullOut' = PullOutcome("page", "", "-")
            /\ new_page' = PaginatedResponse(result.value, resp)
    /\ ppc' = "idle"
    /\ TakeOutcome
    /\ UNCHANGED serverVars
    /\ UNCHANGED <<current_page, index, depth, pulls, pages, yielded, before_pull>>
    /\ UNCHANGED restVars

NextNextPage ==
    \/ next_page
    \/ NextPageArrives
    \/ NextPageReturns

SpecNextPage == InitNextPage /\ [][NextNextPage]_vars

\* C12: has_next is true exactly when the Link Set holds a 'next' relation;
\* next_page() on a result without one signals exhaustion and sends no
\* request; on a result with one it sends exactly one GET, to the 'next'
\* URL, and a page answer makes it return a new result built from that
\* answer; the result it was called on keeps its items and links.
C12_NextPageContract ==
    /\ has_next(current_page) <=> (\E rel \in DOMAIN current_page.links : rel = <<"next">>)
    /\ current_page = PaginatedResponse(pages[1].body.json, pages[1])
    /\ ~has_next(current_page) =>
          /\ pc = "idle" /\ sent = <<>>
          /\ pulls > 0 => pullOut.k = "stop"
    /\ pullOut.k = "stop" => ~has_next(current_page)
    /\ pc # "idle" =>
          /\ has_next(current_page)
          /\ sent = <<Request("GET", next_url(current_page), NoParams, "")>>
    /\ pullOut.k = "page" =>
          /\ pages[2].status \in {200, 204}
          /\ new_page = PaginatedResponse(IF pages[2].status = 200
                                          THEN pages[2].body.json ELSE PyNone,
                                          pages[2])

\* A call on a result with 'next' has returned a new result with other items.
C12_Witness ==
    /\ pullOut.k = "page" /\ has_next(current_page)
    /\ new_page.items # current_page.items
    /\ Len(new_page.items.items) > 0

\* Every answer so far carried a page (a JSON array of items).
OnlyPages == \A i \in 1..Len(pages) : pages[i].status = 200

\* The items of the pages served so far, in the order they were served.
RECURSIVE Concatenation(_)
Concatenation(ps) ==
    IF ps = <<>> THEN <<>>
    ELSE Concatenation(SubSeq(ps, 1, Len(ps) - 1)) \o ps[Len(ps)].body.json.items

IsPrefix(s, t) == Len(s) <= Len(t) /\ SubSeq(t, 1, Len(s)) = s

\* C11: over a chain of pages in which every page but the last carries a
\* 'next' link, the pulls yield the concatenation of the pages' items in
\* order and then signal end-of-sequence, never an error; one GET is sent
\* per page, to the URL the previous page named, and only once every item
\* of the previous pages has been yielded.
C11_PaginationCompleteInOrder ==
    OnlyPages =>
        /\ IsPrefix(yielded, Concatenation(pages))
        /\ pullOut.k \in {"-", "item", "stop"}
        /\ pullOut.k = "stop" =>
              /\ yielded = Concatenation(pages)
              /\ CarriedNext(pages[Len(pages)].link) = <<>>
        /\ (pc = "awaiting" /\ ppc \in {"first", "next"}) =>
              yielded = Concatenation(pages)
        /\ (pc = "awaiting" /\ ppc = "next") =>
              sent[1].url = CarriedNext(pages[Len(pages)].link)

NoDuplicates(seq) == \A i, j \in 1..Len(seq) : seq[i] = seq[j] => i = j

\* After a pull that signalled end-of-sequence, a step of the sequence is a
\* pull that signals it again, yields nothing and sends nothing.
EndIsFinal ==
    pullOut.k = "stop" =>
        /\ pullOut'.k = "stop"
        /\ yielded' = yielded
        /\ pc' = "idle" /\ sent' = <<>>
        /\ pages' = pages

\* C13 as stated: end-of-sequence is final, and no item that was yielded is
\* yielded again.
C13_NeverYieldsAgain == [][EndIsFinal]_vars /\ []NoDuplicates(yielded)

\* C13: end-of-sequence is final, and the sequence never rewinds: what it
\* has yielded is always the items the server served, in the order served,
\* up to the cursor (an item comes twice only when the server serves it
\* twice).
C13_NotRestartable ==
    [][EndIsFinal]_vars /\ []IsPrefix(yielded, Concatenation(pages))

\* One page was served, its items were yielded, and at least two pulls
\* after that signalled end-of-sequence.
C13_Witness ==
    /\ pullOut.k = "stop"
    /\ Len(pages) = 1
    /\ Len(yielded) >= 1
    /\ pulls >= Len(yielded) + 2

\* C14: every pull ends, with an item, end-of-sequence or an error, whatever
\* the server answers, runs of empty pages with 'next' links and 'next'
\* links that lead back included.
C14_EveryPullEnds == (ppc # "idle") ~> (ppc = "idle")

\* A pull over a run of empty pages that each carry a 'next' link has ended.
C14_Witness ==
    /\ ppc = "idle"
    /\ pullOut.exc = "RecursionError"
    /\ Len(pages) = RecursionLimit + 1
    /\ \A i \in 1..Len(pages) :
          /\ pages[i].status = 200
          /\ pages[i].body.json.items = <<>>
          /\ CarriedNext(pages[i].link) = NextUrl

\* C6: with the cache enabled, once a GET on a URL has returned body b with
\* ETag e, the next GET on that URL sends If-None-Match: e, and when it is
\* answered 304 with no body it returns b.
C6_ConditionalGetRoundTrip ==
    (pc \in {"awaiting", "done"} /\ seen[ResourceOf(call)].etag # "") =>
        /\ sent[1].if_none_match = seen[ResourceOf(call)].etag
        /\ (pc = "done" /\ resp.status = 304 /\ resp.body = BEmpty) =>
              result = Return(seen[ResourceOf(call)].data)

\* C7: against a server that answers 304 only when If-None-Match is the
\* current validator of the requested resource, the client with the cache
\* returns what the client without a cache returns, and the latter never
\* sends If-None-Match.
C7_CacheIsCorrectnessNeutral ==
    pc = "done" =>
        /\ result = plainResult
        /\ plainSent[1].if_none_match = ""

(***************************************************************************)
(* Properties of the error classifier and of response interpretation       *)
(***************************************************************************)

TypedKinds ==
    {"BadRequestError", "AuthenticationError", "ForbiddenError", "NotFoundError",
     "ValidationError", "RateLimitError", "ServerError", "FizzyError"}

\* The kind the error taxonomy assigns to a status.
KindOfStatus(s) ==
    CASE s = 400 -> "BadRequestError"
      [] s = 401 -> "AuthenticationError"
      [] s = 403 -> "ForbiddenError"
      [] s = 404 -> "NotFoundError"
      [] s = 422 -> "ValidationError"
      [] s = 429 -> "RateLimitError"
      [] s \in 500..599 -> "ServerError"
      [] OTHER -> "FizzyError"

\* The response the finished call classified: the follow-up's when one came.
Classified == IF fresp # NoResp THEN fresp ELSE resp

\* The body is a JSON object or is not JSON at all.
ObjectOrNotJson(r) == r.body.json.t \in {"dict", "<not json>"}

\* The Retry-After header is absent or an integer.
RetryAfterIsInt(r) == r.retry_after = <<>> \/ ParseInt(r.retry_after).ok

\* C1: every response with status s >= 400 received by an operation makes it
\* raise the typed error whose kind is given by s alone, with status_code s.
C1_KindByStatusAlone ==
    (pc = "done" /\ Classified.status >= 400) =>
        /\ result.k = "raise"
        /\ result.exc = KindOfStatus(Classified.status)
        /\ result.status_code = Classified.status

MessageByPrecedence(r) ==
    LET j == r.body.json IN
    IF j.t = "dict" /\ j.error # Absent THEN j.error
    ELSE IF j.t = "dict" /\ j.message # Absent THEN j.message
    ELSE IF r.body.raw # "" THEN r.body.raw
    ELSE "Unknown error"

\* C3: whatever the shape of the body of a response with status >= 400
\* (absent, not JSON, a JSON object, a JSON array, string or number), the
\* operation raises the typed error of the status, with the message chosen
\* by precedence and an empty field map when the body gives none.  (The
\* Retry-After header is taken to be an integer or absent.)
C3_BodyShapeNeverPreventsClassification ==
    (pc = "done" /\ Classified.status >= 400 /\ RetryAfterIsInt(Classified)) =>
        /\ result.k = "raise"
        /\ result.exc = KindOfStatus(Classified.status)
        /\ result.message = MessageByPrecedence(Classified)
        /\ (~Classified.body.json.hasErrors) => result.errors = {}

\* C4: a 429 response always yields a RateLimitError; retry_after is n when
\* the Retry-After header is the integer n and absent when the header is
\* missing or not an integer.  (The body is taken to be an object or not
\* JSON.)
C4_RetryAfterForEveryHeader ==
    (pc = "done" /\ Classified.status = 429 /\ ObjectOrNotJson(Classified)) =>
        /\ result.exc = "RateLimitError"
        /\ IF ParseInt(Classified.retry_after).ok
           THEN /\ result.has_retry_after
                /\ result.retry_after = ParseInt(Classified.retry_after).val
           ELSE ~result.has_retry_after

CreatedEmpty(r) == r.status = 201 /\ r.location # <<>> /\ EmptyContent(r.body)

\* C8: a follow-up GET is issued if and only if the response is a 201 with a
\* Location header and an empty body; then exactly one is sent, to the
\* Location without the base URL prefix and the trailing ".json", and the
\* operation returns its parsed body; a 201 with a body returns that body.
\* (delete, which returns nothing by signature, is left out.)
C8_FollowUpIffCreatedEmpty ==
    (pc = "done" /\ call.op # "delete") =>
        /\ Len(sent) <= 2
        /\ (Len(sent) = 2) <=> CreatedEmpty(resp)
        /\ CreatedEmpty(resp) =>
              /\ sent[2] = Request("GET", StripJson(StripBase(resp.location)), NoParams, "")
              /\ (fresp.status < 400 /\ fresp.body.json # NotJson) =>
                    result = Return(fresp.body.json)
        /\ (resp.status = 201 /\ resp.body.json # NotJson) =>
              result = Return(resp.body.json)

\* C9: when the follow-up GET receives a status >= 400, the create operation
\* raises the typed error of that status and returns no value.
C9_FollowUpFailureIsTyped ==
    (pc = "done" /\ Len(sent) = 2 /\ fresp.status >= 400) =>
        /\ result.k = "raise"
        /\ result.exc = KindOfStatus(fresp.status)
        /\ result.status_code = fresp.status
        /\ result.value = NoValue

\* What AsyncHTTPClient makes of the first response of the finished call.
AsyncOutcomeOf(c, r) ==
    IF c.op = "get" /\ NotModifiedFromCache(cacheEnabled, r)
    THEN Return(ETagCache_get(cache, c.url).data)
    ELSE Deliver(c.op, async_handle_response(r))

\* C10: for every operation and response the async executor yields the
\* outcome of the sync executor and sends the same follow-up requests.
C10_AsyncSameAsSync ==
    (pc = "done" /\ variant = "sync") =>
        /\ Len(sent) = 1
        /\ result = AsyncOutcomeOf(call, resp)

\* The body is empty or whitespace only.
Blank(r) == r.body.raw \in {"", "  "}

\* C22: the outcome of a finished call is that of the first rule its first
\* response matches: 304 -> None; status >= 400 -> a typed error; 204 ->
\* None; 201 with Location and a blank body -> the follow-up GET is sent;
\* a blank body -> None; otherwise the parsed JSON body.  (A 304 that the
\* cache of get() answers is set aside.)
C22_FirstMatchingRule ==
    (pc = "done" /\ ~(call.op = "get" /\ cacheEnabled /\ resp.status = 304)) =>
        IF resp.status = 304 THEN result = Return(PyNone) /\ Len(sent) = 1
        ELSE IF resp.status >= 400
        THEN result.k = "raise" /\ result.exc \in TypedKinds /\ Len(sent) = 1
        ELSE IF resp.status = 204 THEN result = Return(PyNone) /\ Len(sent) = 1
        ELSE IF resp.status = 201 /\ resp.location # <<>> /\ Blank(resp)
        THEN Len(sent) = 2
        ELSE IF Blank(resp) THEN result = Return(PyNone) /\ Len(sent) = 1
        ELSE /\ Len(sent) = 1
             /\ resp.body.json # NotJson =>
                   result = Return(IF call.op = "delete" THEN PyNone
                                   ELSE resp.body.json)

\* The step ends a GET that returned, on a client with a cache, whose
\* response was neither 304 nor an error and carried an ETag.
StoringGet ==
    /\ pc # "done" /\ pc' = "done"
    /\ call.op = "get"
    /\ cacheEnabled
    /\ resp'.status # 304 /\ resp'.status < 400
    /\ resp'.etag # ""
    /\ result'.k = "return"

C24_ValidatorOfSameRequest ==
    /\ (pc \in {"awaiting", "done"} /\ sent[1].if_none_match # "") =>
          \E e \in received[ResourceOf(call)] : e.etag = sent[1].if_none_match
    /\ (pc = "done" /\ resp.status = 304 /\ result.k = "return") =>
          \E e \in received[ResourceOf(call)] :
              e.etag = sent[1].if_none_match /\ e.data = result.value

\* The GET of a page has raised and the pull is about to end with its error.
FetchFailed == pc = "done" /\ ppc \in {"first", "next"} /\ result.k = "raise"

\* The last answer that carried a page.
LastPage == pages[CHOOSE i \in 1..Len(pages) :
                     pages[i].status = 200
                     /\ \A j \in (i + 1)..Len(pages) : pages[j].status # 200]

\* The URL the sequence has to fetch next: the list endpoint before any
\* page came, the 'next' URL of the last page after that.
UrlToFetch ==
    IF \A i \in 1..Len(pages) : pages[i].status # 200
    THEN <<"/", account_slug>> \o IterPath
    ELSE CarriedNext(LastPage.link)

\* A failed fetch leaves page and cursor as they were before the fetch, and
\* the pull after it sends the same GET again.
FailedFetchKeepsPlace ==
    /\ FetchFailed => (current_page' = current_page /\ index' = index
                       /\ pullOut'.k = "raise" /\ yielded' = yielded)
    /\ (ppc = "idle" /\ pullOut.k = "raise" /\ pullOut.exc \in TypedKinds
        /\ pulls' = pulls + 1) =>
          (pc' = "awaiting" /\ sent'[1].url = UrlToFetch)

\* C26 as stated: when the GET of a page raises during a pull, page and
\* cursor are those of before the pull; the next pull sends the same GET
\* again; what is yielded is always the served items in order.
C26_SameAsBeforePull ==
    /\ [][FailedFetchKeepsPlace]_vars
    /\ [][FetchFailed => (current_page' = before_pull.page
                          /\ index' = before_pull.index)]_vars
    /\ []IsPrefix(yielded, Concatenation(pages))

\* C26: when the GET of a page raises during a pull, page and cursor are
\* those of before that GET (the pull may have moved over empty pages
\* first); the next pull sends the same GET again; what is yielded is
\* always the served items in order, none skipped and none repeated.
C26_FailedFetchKeepsPlace ==
    [][FailedFetchKeepsPlace]_vars /\ []IsPrefix(yielded, Concatenation(pages))

\* A fetch of the second page failed, the next pull fetched it again, and
\* its first item was yielded after the items of the first page.
C26_Witness ==
    /\ Len(pages) = 3
    /\ pages[1].status = 200 /\ pages[2].status = 500 /\ pages[3].status = 200
    /\ Len(pages[1].body.json.items) = 1
    /\ Len(yielded) = 2
    /\ yielded = Concatenation(pages)


\* ------------------------------------------------------------------------
\* A list read twice by one client with the response cache enabled
\* (pagination.py:21-39, 144-155; http.py:183-214).
\* ------------------------------------------------------------------------
MaxPasses == 2

\* What the server holds and does not change: a list of two pages, each
\* with its validator; the first page names the second.
StoredPage(url) ==
    IF url = NextUrl
    THEN [items |-> PageItems(2, 1), link |-> NoLink, etag |-> "p2"]
    ELSE [items |-> PageItems(1, 1), link |-> LinkNext, etag |-> "p1"]

\* The answers to a page request: 304 when the validator matches, with or
\* without the Link header of the page; else the page, with its validator
\* or without one.
RevisitAnswers(req) ==
    IF req.if_none_match = StoredPage(req.url).etag
    THEN { [Response(304, BEmpty, <<>>, StoredPage(req.url).etag, <<>>)
               EXCEPT !.link = l] : l \in {StoredPage(req.url).link, NoLink} }
    ELSE { [PageResponse(StoredPage(req.url).items, StoredPage(req.url).link)
               EXCEPT !.etag = e] : e \in {StoredPage(req.url).etag, ""} }

RevisitArrives ==
    /\ pc = "awaiting"
    /\ ppc \in {"first", "next"}
    /\ \E r \in RevisitAnswers(sent[1]) :
          /\ ReceiveResponse(r)
          /\ pages' = IF Len(pages) < MaxServed THEN Append(pages, r) ELSE pages
    /\ UNCHANGED serverVars
    /\ UNCHANGED <<current_page, index, depth, ppc, pullOut, pulls, yielded, new_page,
                   before_pull>>
    /\ UNCHANGED restVars

\* list_all() once more on the same client after the sequence has ended:
\* PaginationIterator.__init__ makes a sequence with no page and cursor 0.
NewPass ==
    /\ pc = "idle"
    /\ ppc = "idle"
    /\ pullOut.k = "stop"
    /\ Len(passes) < MaxPasses
    /\ passes' = Append(passes, yielded)
    /\ current_page' = NoPage
    /\ index' = 0
    /\ depth' = 0
    /\ ppc' = "idle"
    /\ pullOut' = NoPull
    /\ pulls' = 0
    /\ pages' = <<>>
    /\ yielded' = <<>>
    /\ new_page' = NoPage
    /\ before_pull' = [page |-> NoPage, index |-> 0]
    /\ ExecutorUnchanged
    /\ UNCHANGED <<token, session_token, authorization, account_slug, handles, arg, ret,
                   tasks, reactions>>

NextRevisit ==
    \/ Pull
    \/ RevisitArrives
    \/ Resume
    \/ NewPass

SpecRevisit == InitPages /\ [][NextRevisit]_vars

\* get() has returned the cached body for a page request answered 304.
NotModifiedPage ==
    pc = "done" /\ ppc \in {"first", "next"} /\ resp.status = 304 /\ result.k = "return"

\* C27: a page built from a 304 has the cached items and the 'next' relation
\* of the response that produced them, and every pass over the unchanged
\* list yields the same items as the first pass.
C27_CacheHitsKeepPagination ==
    /\ [][NotModifiedPage =>
            /\ current_page'.items = ETagCache_get(cache, call.url).data
            /\ current_page'.links = ParsedLinks[StoredPage(call.url).link]]_vars
    /\ [](\A i \in 1..Len(passes) : passes[i] = passes[1])


\* ------------------------------------------------------------------------
\* The state of an Auto-Pagination Sequence (pagination.py:126-169).
\* ------------------------------------------------------------------------
\* A page request of the sequence has been answered with a page.
PageFetched == \E i \in 1..Len(pages) : pages[i].status \in {200, 204}

\* len(self._current_page.items) where the items are a list
NumberOfItems(page) == IF page.items.t = "list" THEN Len(page.items.items) ELSE 0

\* get() has returned a page to the pull that waits for it.
PageReturned == pc = "done" /\ ppc \in {"first", "next"} /\ result.k = "return"

SequenceState ==
    /\ pulls = 0 => (current_page = NoPage /\ index = 0)
    /\ current_page = NoPage => (index = 0 /\ (ppc = "idle" => ~PageFetched))
    /\ (PageFetched /\ ppc = "idle") => current_page # NoPage
    /\ current_page # NoPage => index \in 0..NumberOfItems(current_page)

PageReplaced ==
    /\ PageReturned =>
          /\ current_page' = PaginatedResponse(result.value, resp)
          /\ index' = IF pullOut'.k = "item" THEN 1 ELSE 0
    /\ current_page # NoPage => current_page' # NoPage
    /\ current_page' # current_page => PageReturned

\* C28: no page and cursor 0 before the first pull; after the first page
\* has been fetched one current page and a cursor between 0 and its number
\* of items; a fetched page replaces the current page and the cursor
\* restarts at 0 (1 once the pull has returned the first item of the new
\* page); a sequence that has a page never is without one again.
C28_SequenceState == []SequenceState /\ [][PageReplaced]_vars

\* A next page has replaced the first one and its first item was returned.
C28_Witness ==
    /\ Len(pages) = 2
    /\ pages[1].status = 200 /\ pages[2].status = 200
    /\ Len(pages[1].body.json.items) = 2
    /\ ppc = "idle"
    /\ current_page = PaginatedResponse(pages[2].body.json, pages[2])
    /\ index = 1
    /\ Len(yielded) = 3


\* ------------------------------------------------------------------------
\* The representation of list items (resources/base.py:21-27,
\* resources/cards.py:66-143, pagination.py:46-62, 144-161).  An item of a
\* JSON list stands for a JSON object (a dict); model_validate makes a model
\* of the resource type from it.
\* ------------------------------------------------------------------------
\* model_class.model_validate(item)
model_validate(item) == "Card(" \o item \o ")"

\* BaseResource._parse_list: [model_class.model_validate(item) for item in data]
parse_list(data) == JList([i \in 1..Len(data.items) |-> model_validate(data.items[i])])

\* The caller of list_paginated() holds the page it was given in new_page
\* and asks it for the page after it; the sequence list_all() returned runs
\* on the same client.
InitItems == InitPages

\* CardsResource.list_paginated up to its request
list_paginated ==
    /\ pc = "idle"
    /\ ppc = "idle"
    /\ pulls < MaxPulls
    /\ pulls' = pulls + 1
    /\ Issue("get", "GET", IterPath, IterParams, TRUE,
             IfNoneMatch(cache, cacheEnabled, build_url(IterPath, TRUE)))
    /\ ppc' = "list_paginated"
    /\ pullOut' = NoPull
    /\ new_page' = NoPage
    /\ UNCHANGED <<current_page, index, depth, pages, yielded, before_pull>>
    /\ UNCHANGED restVars

\* The server answers the request of list_paginated() or of next_page().
ItemsArrive ==
    /\ pc = "awaiting"
    /\ ppc \in {"list_paginated", "next_page"}
    /\ \E r \in PageAnswers(IF ppc = "next_page" THEN 2 ELSE 1) : ReceiveResponse(r)
    /\ UNCHANGED serverVars
    /\ UNCHANGED iterVars
    /\ UNCHANGED restVars

\* get() has returned or raised inside list_paginated(): the page is built
\* from the parsed items (cards.py:98-105); data that is not a list cannot
\* be iterated.
ListPaginatedReturns ==
    /\ pc = "done"
    /\ ppc = "list_paginated"
    /\ IF result.k # "return"
       THEN /\ pullOut' = PullOutcome("raise", "", result.exc)
            /\ UNCHANGED new_page
       ELSE IF result.value.t # "list"
       THEN /\ pullOut' = PullOutcome("raise", "", "TypeError")
            /\ UNCHANGED new_page
       ELSE /\ pullOut' = PullOutcome("page", "", "-")
            /\ new_page' = PaginatedResponse(parse_list(result.value), resp)
    /\ ppc' = "idle"
    /\ TakeOutcome
    /\ UNCHANGED serverVars
    /\ UNCHANGED <<current_page, index, depth, pulls, pages, yielded, before_pull>>
    /\ UNCHANGED restVars

\* page.next_page() on the page the caller holds, up to its request
\* (pagination.py:46-53); the caller keeps the page until the call returns.
NextOfHeldPage ==
    /\ pc = "idle"
    /\ ppc = "idle"
    /\ new_page # NoPage
    /\ has_next(new_page)
    /\ pulls < MaxPulls
    /\ pulls' = pulls + 1
    /\ Issue("get", "GET", next_url(new_page), NoParams, FALSE,
             IfNoneMatch(cache, cacheEnabled, build_url(next_url(new_page), FALSE)))
    /\ pullOut' = NoPull
    /\ ppc' = "next_page"
    /\ UNCHANGED <<current_page, index, depth, pages, yielded, new_page, before_pull>>
    /\ UNCHANGED restVars

NextItems ==
    \/ list_paginated
    \/ NextOfHeldPage
    \/ ItemsArrive
    \/ ListPaginatedReturns
    \/ NextPageReturns
    \/ Pull
    \/ PageArrives
    \/ Resume

SpecItems == InitItems /\ [][NextItems]_vars

\* The items the servers of the model send, and the models made of them.
RawItems ==
    { PageItems(g, n)[i] : <<g, n, i>> \in
        { t \in (1..(MaxServed + 1)) \X (1..MaxPageSize) \X (1..MaxPageSize) :
            t[3] <= t[2] } }

IsModel(item) == item \in { model_validate(x) : x \in RawItems }

AllModels(page) ==
    page.items.t = "list" =>
        \A i \in 1..Len(page.items.items) : IsModel(page.items.items[i])

\* C29: every item of a page the caller was given, by list_paginated() or
\* by next_page(), and every item a list_all() sequence has yielded, is a
\* parsed model.
C29_OneRepresentation ==
    /\ AllModels(new_page)
    /\ \A i \in 1..Len(yielded) : IsModel(yielded[i])


\* ------------------------------------------------------------------------
\* reactions.create by several callers on one comment
\* (resources/reactions.py:33-56, 88-111; models/reaction.py).
\* ------------------------------------------------------------------------
ReactionContents == {"thumbs_up", "heart"}

\* Reaction(id=..., content=...)
Reaction(id, content) == [id |-> id, content |-> content]

NoReaction == Reaction("<none>", "<none>")

\* The JSON of a reaction, and self._parse_model(data, Reaction) of it: the
\* JSON carries the fields of the reaction the server holds.
ReactionBody(rn) ==
    Body(ToString(<<rn.id, rn.content>>), JObject(rn.id, Absent, Absent, FALSE, {}))

parse_model(data, stored) ==
    CHOOSE rn \in {stored[i] : i \in 1..Len(stored)} : rn.id = data.id

\* if data: (None, an empty object, an empty array are false)
DataTruthy(data) ==
    ~ \/ data.t = "NoneType"
      \/ data = EmptyDict
      \/ (data.t = "list" /\ data.items = <<>>)

\* for reaction in reactions: if reaction.content == content: return reaction
\* and after the loop: return Reaction(id="", content=content)
FirstMatch(listed, content) ==
    IF \E i \in 1..Len(listed) : listed[i].content = content
    THEN listed[CHOOSE i \in 1..Len(listed) :
                    /\ listed[i].content = content
                    /\ \A j \in 1..(i - 1) : listed[j].content # content]
    ELSE Reaction("", content)

\* One call of create: where it is, the content asked for, the response to
\* its POST, the reaction the server made for it, the list it was given and
\* what the call returned or raised.
Creator(p, content, post, made, listed, out, exc) ==
    [pc |-> p, content |-> content, post |-> post, made |-> made,
     listed |-> listed, out |-> out, exc |-> exc]

IdleCreator == Creator("idle", "", NoResp, NoReaction, <<>>, NoReaction, "-")

\* A reaction of another user may be on the comment already.
InitReactions ==
    /\ account_slug = "123456"
    /\ variant \in {"sync", "async"}
    /\ cacheEnabled = FALSE
    /\ cache = EmptyCache
    /\ pc = "idle"
    /\ call = NoCall
    /\ sent = <<>>
    /\ resp = NoResp
    /\ fresp = NoResp
    /\ result = NoOutcome
    /\ version = InitialVersions
    /\ seen = NothingSeen
    /\ received = NothingReceived
    /\ plainSent = <<>>
    /\ plainResult = NoOutcome
    /\ IterInit
    /\ token = "tokA"
    /\ session_token = NotGiven
    /\ authorization = AuthorizationOf(token, session_token)
    /\ handles = <<>>
    /\ arg = NotComputed
    /\ ret = NotComputed
    /\ tasks = [t \in TaskIds |-> IdleCreator]
    /\ reactions \in {<<>>, <<Reaction("0", "thumbs_up")>>}
    /\ passes = <<>>

CreatorFrame ==
    /\ UNCHANGED <<variant, cacheEnabled, cache, pc, call, sent, resp, fresp, result>>
    /\ UNCHANGED <<serverVars, iterVars, clientVars, handles, arg, ret, passes>>

\* create up to the POST: self._http.post(..., data={"reaction": {"content": content}})
CreatePost(t, content) ==
    /\ tasks[t].pc = "idle"
    /\ tasks' = [tasks EXCEPT ![t] = [IdleCreator EXCEPT !.pc = "posting",
                                                         !.content = content]]
    /\ UNCHANGED reactions
    /\ CreatorFrame

\* The Location of a created reaction (tests/resources/test_reactions.py:38-46)
ReactionLocation == base_url \o <<"/", "123456", "/reactions", "/reaction123", ".json">>

\* The answers of the server to the POST once it has made the reaction rn:
\* 201 with the reaction, 201 with no body, with or without a Location, or
\* 204.
CreatedAnswers(rn) ==
    { Response(201, ReactionBody(rn), <<>>, "", <<>>),
      Response(201, BEmpty, <<>>, "", <<>>),
      Response(201, BEmpty, ReactionLocation, "", <<>>),
      Response(204, BEmpty, <<>>, "", <<>>) }

\* The outcome of post() for the response r to the POST that made rn; the
\* follow-up GET of a Location is answered with the reaction.
PostOutcome(r, rn) == HandleBy(variant, r, Response(200, ReactionBody(rn), <<>>, "", <<>>))

\* The server handles the POST: it appends the reaction and answers; post()
\* returns or raises, and create returns the parsed reaction, raises, or
\* goes on to list the reactions.
ServerCreates(t) ==
    /\ tasks[t].pc = "posting"
    /\ LET rn == Reaction(ToString(t), tasks[t].content)
       IN \E r \in CreatedAnswers(rn) :
             /\ reactions' = Append(reactions, rn)
             /\ tasks' = [tasks EXCEPT ![t] =
                   IF PostOutcome(r, rn).k # "return"
                   THEN [@ EXCEPT !.pc = "done", !.post = r, !.made = rn,
                                  !.exc = PostOutcome(r, rn).exc]
                   ELSE IF DataTruthy(PostOutcome(r, rn).value)
                   THEN [@ EXCEPT !.pc = "done", !.post = r, !.made = rn,
                                  !.out = parse_model(PostOutcome(r, rn).value,
                                                      Append(reactions, rn))]
                   ELSE [@ EXCEPT !.pc = "listing", !.post = r, !.made = rn]]
    /\ CreatorFrame

\* The server refuses the POST: post() raises the typed error.
ServerRefuses(t) ==
    /\ tasks[t].pc = "posting"
    /\ tasks' = [tasks EXCEPT ![t].pc = "done", ![t].post = PageFailure,
                              ![t].exc = HandleBy(variant, PageFailure, NoResp).exc]
    /\ UNCHANGED reactions
    /\ CreatorFrame

\* self.list(card_number, comment_id) is answered with the reactions the
\* comment has now, and create returns the first of the content, or the
\* minimal reaction.
ListReturns(t) ==
    /\ tasks[t].pc = "listing"
    /\ tasks' = [tasks EXCEPT ![t].pc = "done", ![t].listed = reactions,
                              ![t].out = FirstMatch(reactions, tasks[t].content)]
    /\ UNCHANGED reactions
    /\ CreatorFrame

\* Another user removes a reaction of the comment (DELETE .../reactions/id).
ReactionRemoved(i) ==
    /\ i \in 1..Len(reactions)
    /\ reactions' = [j \in 1..(Len(reactions) - 1) |->
                        IF j < i THEN reactions[j] ELSE reactions[j + 1]]
    /\ UNCHANGED tasks
    /\ CreatorFrame

NextReactions ==
    \/ \E t \in TaskIds, content \in ReactionContents : CreatePost(t, content)
    \/ \E t \in TaskIds : ServerCreates(t)
    \/ \E t \in TaskIds : ServerRefuses(t)
    \/ \E t \in TaskIds : ListReturns(t)
    \/ \E i \in 1..MaxTasks + 1 : ReactionRemoved(i)

SpecReactions == InitReactions /\ [][NextReactions]_vars

\* The POST of the call was answered with success, no body and no Location.
NoBodyCreated(c) ==
    c.post.status \in {201, 204} /\ Blank(c.post) /\ c.post.location = <<>>

\* C30: a create whose POST was answered without a body returns, with no
\* error, the first listed reaction of the content asked for, or a reaction
\* with empty id and that content when the list has none.
C30_FallbackByContent ==
    \A t \in TaskIds :
        (tasks[t].pc = "done" /\ NoBodyCreated(tasks[t])) =>
            /\ tasks[t].exc = "-"
            /\ tasks[t].out = FirstMatch(tasks[t].listed, tasks[t].content)
            /\ tasks[t].out.content = tasks[t].content
            /\ \/ tasks[t].out.id = ""
               \/ \E i \in 1..Len(tasks[t].listed) : tasks[t].listed[i] = tasks[t].out

\* Two calls have returned the same reaction, which one of them did not make.
SameReactionTwice ==
    \E t, u \in TaskIds :
        /\ t # u
        /\ tasks[t].pc = "done" /\ tasks[u].pc = "done"
        /\ NoBodyCreated(tasks[t]) /\ NoBodyCreated(tasks[u])
        /\ tasks[t].out = tasks[u].out
        /\ tasks[t].out.id # ""
        /\ tasks[u].made # tasks[u].out

\* A call has returned the minimal reaction.
MinimalReactionReturned ==
    \E t \in TaskIds :
        /\ tasks[t].pc = "done" /\ NoBodyCreated(tasks[t])
        /\ tasks[t].out = Reaction("", tasks[t].content)

====
